---- MODULE Spec2Model ----
(***************************************************************************)
(* A model of ambula, a permissioned blockchain whose consensus is         *)
(* Proof-of-Interaction (PoI): the PoI engine (createServices, tourLength, *)
(* GeneratePoI, CheckPoI), the equivocation tracker (PoIMessageTracker),   *)
(* the Blockchain state (AddBlock, CheckMessage, HandleSignatureRequest)   *)
(* and the PoINode event loop over LocalTransport.                         *)
(*                                                                         *)
(* Byte strings (keys, signatures, encodings) are sequences of naturals.   *)
(* BLAKE2b-256 is a fixed-size digest of its input: three independent      *)
(* polynomial checksums, the first read by hashToIndex (the code's first 8 *)
(* bytes), the last by the PRNG seed (the code's low 64 bits).             *)
(***************************************************************************)
EXTENDS Integers, Sequences, FiniteSets, TLC

VARIABLES
    received,   \* PoIMessageTracker.received: fromStr -> (depStr -> message)
    op,         \* the last operation called and what it returned
    pIn,        \* PoI engine: the arguments of the GeneratePoI call
    pOut,       \* PoI engine: what GeneratePoI returned, [err, poi]
    pChk,       \* PoI engine: the last CheckPoI call and its result
    pPc,        \* PoI engine: "new", "generated", "failed" or "checked"
    blockchain, \* PoINode.blockchain: the node's Blockchain
    pool,       \* the blocks GenerateBlock has returned so far
    signed,     \* the requests HandleSignatureRequest has signed so far
    calls,      \* concurrent callers: each call's arguments, position and locals
    trackerMu,  \* PoIMessageTracker.mu: the callers that hold it
    chainReaders, \* Blockchain.mu: the callers that hold its read lock
    peers,      \* LocalTransport.peers of every transport
    rpcCh,      \* LocalTransport.rpcCh of every transport
    loop,       \* PoINode.run: where the event loop of the node is
    reqCount,   \* the number of requests each requester has sent
    twin,       \* a second Blockchain, given the same AddBlock calls
    adjCall,    \* AdjustDifficulty: the arguments of a call and its result
    tourCall,   \* createServices, tourLength: the arguments of a call and its results
    ledger,     \* LedgerState.accounts: address -> balance
    writers,    \* concurrent AddBlock calls: each call's block, position and result
    wire,       \* LocalTransport: what each transport has sent and consumed
    reqs,       \* RequestSignature calls: each call's position, request ID and result
    pendingRequests, \* PoINode.pendingRequests: request ID -> response channel
    requestCounter,  \* PoINode.requestCounter
    handler     \* the requesting node's event loop inside handleSignatureResponse

vars == <<received, op, pIn, pOut, pChk, pPc, blockchain, pool, signed,
          calls, trackerMu, chainReaders, peers, rpcCh, loop, reqCount,
          twin, adjCall, tourCall, ledger, writers, wire,
          reqs, pendingRequests, requestCounter, handler>>
trackerVars == <<received, op>>
poiVars == <<pIn, pOut, pChk, pPc>>
nodeVars == <<blockchain, pool, signed, twin>>
concVars == <<calls, trackerMu, chainReaders>>
loopVars == <<peers, rpcCh, loop, reqCount>>
reqVars == <<reqs, pendingRequests, requestCounter, handler>>
lateVars == <<ledger, writers, wire, reqVars>>
pureVars == <<adjCall, tourCall, lateVars>>

\* what the actions of each specification leave alone
trackerFrame == <<poiVars, nodeVars, concVars, loopVars, pureVars>>
poiFrame == <<trackerVars, nodeVars, concVars, loopVars, pureVars>>
nodeFrame == <<poiVars, concVars, loopVars, pureVars>>
concFrame == <<op, poiVars, nodeVars, loopVars, pureVars>>
loopFrame == <<op, poiVars, nodeVars, concVars, pureVars>>

(***************************************************************************)
(* Bounds of the model.                                                    *)
(***************************************************************************)
MaxNodes == 4        \* node lists have 0..MaxNodes members
MaxTour == 2         \* difficulties range over 0..MaxTour
NumNonces == 2       \* distinct signing nonces an ECDSA signer may draw
NumMsgs == 3         \* distinct messages (data hashes) a sender may submit

(***************************************************************************)
(* Tags that open the byte strings of the model.                           *)
(***************************************************************************)
Tag == [hash |-> 201, pubKey |-> 202, sig |-> 203, garbage |-> 204]

\* rand.Reader in PrivateKey.Sign: the nonce an ECDSA signature draws.
Nonces == 1..NumNonces

(***************************************************************************)
(* crypto: hashes, keys, signatures                                        *)
(***************************************************************************)
RECURSIVE DigestFrom(_, _, _, _, _)
DigestFrom(b, i, mult, modulus, acc) ==
    IF i > Len(b) THEN acc
    ELSE DigestFrom(b, i + 1, mult, modulus, (acc * mult + b[i] + 1) % modulus)

\* blake2b.Sum256(b): a three-word digest
Blake(b) ==
    <<DigestFrom(b, 1, 31, 65521, 7), DigestFrom(b, 1, 37, 65519, 7),
      DigestFrom(b, 1, 41, 65537, 7)>>

\* crypto.Hash{} : the zero hash, "unset or invalidated"
ZeroHash == <<0, 0, 0>>

\* Hash.IsZero
IsZero(h) == \A i \in 1..Len(h) : h[i] = 0

RECURSIVE HexFrom(_, _)
HexFrom(b, i) ==
    IF i > Len(b) THEN <<>>
    ELSE <<b[i] \div 16, b[i] % 16>> \o HexFrom(b, i + 1)

\* Hash.String / Address.String: hex.EncodeToString, two digits per byte
HashString(h) == HexFrom(h, 1)

\* PrivateKey.PublicKey: private key k is the number k, its public key a tagged
\* byte string
PublicKeyOf(k) == <<Tag.pubKey, k>>

\* The private key whose public key is pk (the test's nodePrivKeys map).
PrivateKeyOf(pk) == pk[2]

\* PublicKey.Address: the hash of the public key
AddressOf(pk) == Blake(pk)

\* PrivateKey.Sign(hash): an ECDSA signature of hash by key k with nonce n.
Sign(k, h, n) == <<Tag.sig, k, n>> \o h

\* A byte string that is no signature of any key (a flipped byte).
GarbageSig == <<Tag.garbage>>

\* The key no participant owns: what recovery yields from a signature that was
\* not made over the hash it is checked against.
StrangerKey == <<Tag.pubKey, 0>>

\* Signature.PublicKey(hash): the key that would verify sig over h.
RecoverPublicKey(sig, h) ==
    IF Len(sig) >= 3 /\ sig[1] = Tag.sig /\ SubSeq(sig, 4, Len(sig)) = h
    THEN PublicKeyOf(sig[2])
    ELSE StrangerKey

(***************************************************************************)
(* math/rand: a deterministic generator, here a linear congruential one.   *)
(***************************************************************************)
\* rand.NewSource(seedInt.Int64()) of seedInt = blake2b.Sum256(seed): the low
\* 64 bits of the digest
NewSource(seed) == Blake(seed)[3]

\* the generator's state after one draw
RngNext(s) == (s * 75 + 74) % 65537

\* rng.Intn(n) as the first draw from state s
Intn(s, n) == RngNext(s) % n

(***************************************************************************)
(* core: difficulty                                                        *)
(***************************************************************************)
DEFAULT_SERVICE_SIZE == 20

\* uint32 arithmetic, the width scaled from 32 to 16 bits
U32(x) == x % 65536

\* the largest uint32
MaxUint32 == U32(0 - 1)

\* Difficulty.Mean: the sum is a uint32
Mean(d) == U32(d.Min + d.Max) \div 2

\* Difficulty.Validate: TRUE iff it returns nil
Validate(d) == ~(d.Min = 0 \/ d.Max = 0) /\ ~(d.Min > d.Max)

(***************************************************************************)
(* core: createServices and tourLength                                     *)
(***************************************************************************)
Swap(s, i, j) == [s EXCEPT ![i] = s[j], ![j] = s[i]]

\* The Fisher-Yates loop: for i := len-1; i > 0; i-- (0-based), i.e. positions
\* i+1 and j+1 of the 1-based sequence.
RECURSIVE Shuffle(_, _, _)
Shuffle(nodesCopy, i, rng) ==
    IF i <= 0 THEN nodesCopy
    ELSE LET j == Intn(rng, i + 1)
         IN Shuffle(Swap(nodesCopy, i + 1, j + 1), i - 1, RngNext(rng))

\* variant: n/2 without the cap of DEFAULT_SERVICE_SIZE
SubsetSize_NoCap(n) == n \div 2

\* min(20, n/2), then clipped to n
SubsetSize(n) ==
    LET half == n \div 2
        capped == IF half > DEFAULT_SERVICE_SIZE THEN DEFAULT_SERVICE_SIZE ELSE half
    IN IF capped > n THEN n ELSE capped

createServices(nodes, seed) ==
    IF Len(nodes) = 0 THEN <<>>
    ELSE SubSeq(Shuffle(nodes, Len(nodes) - 1, NewSource(seed)), 1, SubsetSize(Len(nodes)))

\* variant: the random part is drawn from [0, Max] and not from [0, Max - Min]
tourLength_RangeFromZero(difficulty, seed) ==
    IF ~Validate(difficulty) THEN [err |-> "ErrInvalidDifficulty", length |-> 0]
    ELSE LET rangeSize == U32(difficulty.Max + 1)
         IN [err |-> "nil",
             length |-> U32(difficulty.Min + U32(Intn(NewSource(seed), rangeSize)))]

\* tourLength: [err, length]
tourLength(difficulty, seed) ==
    IF ~Validate(difficulty) THEN [err |-> "ErrInvalidDifficulty", length |-> 0]
    ELSE LET rangeSize == U32(difficulty.Max - difficulty.Min + 1)
         IN [err |-> "nil",
             length |-> U32(difficulty.Min + U32(Intn(NewSource(seed), rangeSize)))]

(***************************************************************************)
(* core: GeneratePoI and CheckPoI                                          *)
(***************************************************************************)
\* SignatureRequest.Bytes: Hash || Dependency || Message (From is not covered)
SignatureRequestBytes(req) == req.Hash \o req.Dependency \o req.Message

\* hashConcat(sig, data)
hashConcat(sig, data) == Blake(sig \o data)

\* hashToIndex(hash, n): the first 8 bytes as a big-endian uint64, mod n
hashToIndex(hash, n) == IF n = 0 THEN 0 ELSE hash[1] % n

\* The signature provider of TestGenerateAndCheckPoI: the selected service
\* signs the hash of the request bytes.  prov.failAt = i makes the provider
\* return an error at hop i (a timeout, a send failure, an error response);
\* prov.failAt = 0 never fails.  prov.forgeAt = i makes it return, with no
\* error, a signature that is not the service's (RequestSignature hands on
\* whatever the response carries); prov.forgeAt = 0 never does.  [err, sig]
SignatureProvider(prov, req, service, hop) ==
    IF prov.failAt = hop THEN [err |-> "ErrProvider", sig |-> <<>>]
    ELSE IF prov.forgeAt = hop
    THEN [err |-> "nil",
          sig |-> Sign(PrivateKeyOf(StrangerKey), Blake(SignatureRequestBytes(req)), prov.rnd)]
    ELSE [err |-> "nil",
          sig |-> Sign(PrivateKeyOf(service), Blake(SignatureRequestBytes(req)), prov.rnd)]

NoProof == [InitialSig |-> <<>>, TourSignatures |-> <<>>]

\* The tour loop of GeneratePoI, from hop i (1-based) with the proof so far.
RECURSIVE GenerateTour(_, _, _, _, _, _, _, _)
GenerateTour(initiator, dependency, message, services, length, prov, i, st) ==
    IF i > length THEN [err |-> "nil", poi |-> st.poi]
    ELSE LET nextHopIndex == hashToIndex(st.currentHash, Len(services))
             nextService == services[nextHopIndex + 1]
             req == [Hash |-> st.currentHash, Dependency |-> dependency,
                     Message |-> message,
                     From |-> AddressOf(PublicKeyOf(initiator))]
             got == SignatureProvider(prov, req, nextService, i)
             initiatorSig == Sign(initiator, Blake(got.sig), prov.rnd)
         IN IF got.err # "nil" THEN [err |-> got.err, poi |-> NoProof]
            ELSE GenerateTour(initiator, dependency, message, services, length, prov, i + 1,
                    [poi |-> [st.poi EXCEPT !.TourSignatures =
                                  @ \o <<got.sig, initiatorSig>>],
                     currentHash |-> Blake(initiatorSig)])

\* GeneratePoI(initiator, dependency, message, ctx, signatureProvider): [err, poi]
GeneratePoI(initiator, dependency, message, ctx, prov) ==
    IF Len(ctx.Nodes) = 0 THEN [err |-> "ErrEmptyNodeList", poi |-> NoProof]
    ELSE LET s0 == Sign(initiator, dependency, prov.rnd)
             services == createServices(ctx.Nodes, s0)
             tl == tourLength(ctx.Difficulty, s0)
         IN IF Len(services) = 0 THEN [err |-> "ErrEmptyNodeList", poi |-> NoProof]
            ELSE IF tl.err # "nil" THEN [err |-> tl.err, poi |-> NoProof]
            ELSE GenerateTour(initiator, dependency, message, services, tl.length, prov, 1,
                    [poi |-> [InitialSig |-> s0, TourSignatures |-> <<>>],
                     currentHash |-> hashConcat(s0, message)])

\* ProofOfInteraction.Length
ProofLength(poi) == Len(poi.TourSignatures) \div 2

\* variant: the number of signatures, not of hops, is compared
LengthMismatch_CountsSignatures(poi, expectedLength) ==
    Len(poi.TourSignatures) # expectedLength

\* actualLength != expectedLength, the length check of CheckPoI
LengthMismatch(poi, expectedLength) == ProofLength(poi) # expectedLength

\* The verification loop of CheckPoI, from step i (0-based as in the code).
RECURSIVE CheckTour(_, _, _, _, _, _, _, _)
CheckTour(poi, initiator, dependency, message, services, expectedLength, i, currentHash) ==
    IF i >= expectedLength THEN "nil"
    ELSE LET serviceSigIdx == i * 2
             initiatorSigIdx == i * 2 + 1
         IN IF initiatorSigIdx >= Len(poi.TourSignatures) THEN "ErrIncomplete"
            ELSE LET serviceSig == poi.TourSignatures[serviceSigIdx + 1]
                     initiatorSig == poi.TourSignatures[initiatorSigIdx + 1]
                     nextHopIndex == hashToIndex(currentHash, Len(services))
                     expectedService == services[nextHopIndex + 1]
                     reqHash == Blake(currentHash \o dependency \o message)
                     servicePubKey == RecoverPublicKey(serviceSig, reqHash)
                     initiatorSigPubKey == RecoverPublicKey(initiatorSig, Blake(serviceSig))
                 IN IF servicePubKey # expectedService THEN "ErrInvalidService"
                    ELSE IF initiatorSigPubKey # initiator THEN "ErrNotInitiator"
                    ELSE CheckTour(poi, initiator, dependency, message, services,
                                   expectedLength, i + 1, Blake(initiatorSig))

\* CheckPoI(poi, initiator, dependency, message, ctx): "nil" or the error
CheckPoI(poi, initiator, dependency, message, ctx) ==
    IF RecoverPublicKey(poi.InitialSig, dependency) # initiator THEN "ErrNotInitiator"
    ELSE LET services == createServices(ctx.Nodes, poi.InitialSig)
             tl == tourLength(ctx.Difficulty, poi.InitialSig)
         IN IF Len(services) = 0 THEN "ErrEmptyNodeList"
            ELSE IF tl.err # "nil" THEN tl.err
            ELSE IF LengthMismatch(poi, tl.length) THEN "ErrInvalidPoILength"
            ELSE CheckTour(poi, initiator, dependency, message, services, tl.length, 0,
                           hashConcat(poi.InitialSig, message))

(***************************************************************************)
(* network: PoIMessageTracker                                              *)
(***************************************************************************)
EmptyMap == [k \in {} |-> <<>>]

\* map[k] = v on a Go map
MapPut(m, k, v) == [x \in DOMAIN m \cup {k} |-> IF x = k THEN v ELSE m[x]]

\* delete(m, k) on a Go map
MapDelete(m, k) == [x \in DOMAIN m \ {k} |-> m[x]]

\* existingMsg, exists := t.received[fromStr][depStr]
HasEntry(rcv, from, dependency) ==
    /\ HashString(from) \in DOMAIN rcv
    /\ HashString(dependency) \in DOMAIN rcv[HashString(from)]

EntryOf(rcv, from, dependency) == rcv[HashString(from)][HashString(dependency)]

\* mutants of the double-touring test: never fires; fires on every retry
IsDoubleTouring_Never(existingMsg, message) == FALSE
IsDoubleTouring_Always(existingMsg, message) == TRUE

\* existingMsg != message: the double-touring test
IsDoubleTouring(existingMsg, message) == existingMsg # message

\* PoIMessageTracker.CheckAndRecord under t.mu: [err, seen, received]
CheckAndRecord(rcv, from, dependency, message) ==
    LET fromStr == HashString(from)
        depStr == HashString(dependency)
        r1 == IF fromStr \notin DOMAIN rcv THEN MapPut(rcv, fromStr, EmptyMap) ELSE rcv
    IN IF depStr \in DOMAIN r1[fromStr]
       THEN IF IsDoubleTouring(r1[fromStr][depStr], message)
            THEN [err |-> "ErrDoubleTouringDetected", seen |-> TRUE, received |-> r1]
            ELSE [err |-> "nil", seen |-> TRUE, received |-> r1]
       ELSE [err |-> "nil", seen |-> FALSE,
             received |-> MapPut(r1, fromStr, MapPut(r1[fromStr], depStr, message))]

MutexFree_Always(mu) == TRUE

\* t.mu.Lock() can be taken: nobody holds the tracker's mutex
MutexFree(mu) == mu = {}

\* mutant of Clear: drops the senders' maps altogether
Clear_DropsAll(rcv, dependency) == [f \in DOMAIN rcv |-> EmptyMap]

\* PoIMessageTracker.Clear under t.mu
Clear(rcv, dependency) ==
    [f \in DOMAIN rcv |-> MapDelete(rcv[f], HashString(dependency))]

(***************************************************************************)
(* core: transactions and blocks                                           *)
(***************************************************************************)
PROTOCOL_VERSION == 2

\* TxHasher.Hash: To || Value || From || Nonce || Data
TxHasherHash(tx) == Blake(tx.To \o <<tx.Value>> \o tx.From \o <<tx.Nonce>> \o tx.Data)

\* GobTxEncoder.Encode: the exported fields in the order of the struct
TxBytes(tx) ==
    <<Len(tx.Data)>> \o tx.Data \o tx.To \o <<tx.Value>> \o tx.From
        \o <<Len(tx.Signature)>> \o tx.Signature \o <<tx.Nonce>>

\* Transaction.Signer fails: the signature is missing or malformed
TxSignerFails(tx) == ~(Len(tx.Signature) >= 3 /\ tx.Signature[1] = Tag.sig)

RECURSIVE TxxBytes(_, _)
TxxBytes(txx, i) == IF i > Len(txx) THEN <<>> ELSE TxBytes(txx[i]) \o TxxBytes(txx, i + 1)

\* ComputeDataHash
ComputeDataHash(txx) == Blake(TxxBytes(txx, 1))

\* Header.Bytes: the gob encoding of the header's fields
HeaderBytes(b) ==
    <<b.Version>> \o b.DataHash \o b.PrevBlockHash
        \o <<b.Height, b.Timestamp, b.Difficulty.Min, b.Difficulty.Max>>

\* BlockHasher.Hash
BlockHasherHash(b) == Blake(HeaderBytes(b))

\* NewBlock(h, txx): no signature, no proof, no cached hash
NewBlock(h, txx) ==
    [nil |-> FALSE, Version |-> h.Version, DataHash |-> h.DataHash,
     PrevBlockHash |-> h.PrevBlockHash, Height |-> h.Height, Timestamp |-> h.Timestamp,
     Difficulty |-> h.Difficulty, Transactions |-> txx, Signature |-> <<>>,
     HasProof |-> FALSE, Proof |-> NoProof, headerHash |-> ZeroHash]

\* a nil *Block
NilBlock ==
    [NewBlock([Version |-> 0, DataHash |-> ZeroHash, PrevBlockHash |-> ZeroHash,
               Height |-> 0, Timestamp |-> 0, Difficulty |-> [Min |-> 0, Max |-> 0]],
              <<>>) EXCEPT !.nil = TRUE]

\* Block.HeaderHash: the cached hash unless it is zero
HeaderHash(b) == IF IsZero(b.headerHash) THEN BlockHasherHash(b) ELSE b.headerHash

\* the block after a HeaderHash call: the cache is filled
Cached(b) == [b EXCEPT !.headerHash = HeaderHash(b)]

\* Block.Sign
BlockSign(b, k, n) == [Cached(b) EXCEPT !.Signature = Sign(k, HeaderHash(b), n)]

\* Block.SetProof
SetProof(b, proof) == [b EXCEPT !.HasProof = TRUE, !.Proof = proof]

\* Block.VerifyData: "nil" or the error
VerifyData(b) ==
    IF b.Signature = <<>> /\ ~b.HasProof THEN "ErrBlockMissingSignature"
    ELSE IF \E i \in 1..Len(b.Transactions) : TxSignerFails(b.Transactions[i])
    THEN "ErrTxSigner"
    ELSE IF ComputeDataHash(b.Transactions) # b.DataHash THEN "ErrDataHash"
    ELSE "nil"

\* Block.Initiator: the key recovered from the initial signature
Initiator(b) == RecoverPublicKey(b.Proof.InitialSig, b.PrevBlockHash)

\* Block.VerifyProof(ctx): the context's difficulty is replaced by the block's
VerifyProof(b, ctx) ==
    IF ~b.HasProof THEN "ErrBlockMissingProof"
    ELSE IF Initiator(b) = StrangerKey THEN "ErrInitiator"
    ELSE CheckPoI(b.Proof, Initiator(b), b.PrevBlockHash, b.DataHash,
                  [ctx EXCEPT !.Difficulty = b.Difficulty])

(***************************************************************************)
(* core: AdjustDifficulty.  Timestamps count seconds instead of            *)
(* nanoseconds, block times are the quotients of two integers, and         *)
(* float64(mean) / (actual / target) is the quotient mean*target/actual.   *)
(***************************************************************************)
DIFFICULTY_ADJUSTMENT_INTERVAL == 2016

\* seconds
TARGET_BLOCK_TIME == 10

AdjustDifficulty(currentDifficulty, targetBlockTime, actualBlockTime) ==
    IF actualBlockTime <= 0 \/ targetBlockTime <= 0 THEN currentDifficulty
    ELSE LET scaled == U32((Mean(currentDifficulty) * targetBlockTime) \div actualBlockTime)
             newMean == IF scaled < 1 THEN 1 ELSE scaled
             rangeSize == U32(currentDifficulty.Max - currentDifficulty.Min)
             newMin == U32(newMean - rangeSize \div 2)
             newMax == U32(newMean + rangeSize \div 2)
         IN IF newMin < 1 THEN [Min |-> 1, Max |-> U32(1 + rangeSize)]
            ELSE [Min |-> newMin, Max |-> newMax]

(***************************************************************************)
(* core: Blockchain                                                        *)
(***************************************************************************)
\* NewBlockchain(config, genesisBlock), genesisBlock not nil
NewBlockchain(config, genesisBlock) ==
    LET g0 == IF genesisBlock.Difficulty.Min = 0
              THEN [genesisBlock EXCEPT !.Difficulty = config.Difficulty]
              ELSE genesisBlock
        g == Cached(g0)
    IN [blocks |-> MapPut(EmptyMap, HashString(HeaderHash(g)), g),
        blocksByHeight |-> MapPut(EmptyMap, 0, <<g>>),
        longestChain |-> <<g>>,
        genesisBlock |-> g,
        currentHeight |-> 0,
        nodes |-> config.Nodes,
        difficulty |-> config.Difficulty,
        hasTracker |-> FALSE]

\* Blockchain.SetMessageTracker (NewPoINode calls it)
SetMessageTracker(bc) == [bc EXCEPT !.hasTracker = TRUE]

\* Blockchain.LastBlock
LastBlock(bc) ==
    IF Len(bc.longestChain) = 0 THEN bc.genesisBlock
    ELSE bc.longestChain[Len(bc.longestChain)]

\* variant: the error of GeneratePoI is dropped and the block returned
GenerateBlock_IgnoresPoIError(bc, initiator, transactions, prov, now) ==
    LET lastBlock == LastBlock(bc)
        dataHash == ComputeDataHash(transactions)
        prevBlockHash == HeaderHash(lastBlock)
        header == [Version |-> PROTOCOL_VERSION, Height |-> U32(lastBlock.Height + 1),
                   DataHash |-> dataHash, PrevBlockHash |-> prevBlockHash,
                   Timestamp |-> now, Difficulty |-> bc.difficulty]
        got == GeneratePoI(initiator, prevBlockHash, dataHash,
                           [Nodes |-> bc.nodes, Difficulty |-> bc.difficulty], prov)
    IN [err |-> "nil", block |-> SetProof(NewBlock(header, transactions), got.poi)]

\* Blockchain.GenerateBlock: [err, block]
GenerateBlock(bc, initiator, transactions, prov, now) ==
    LET lastBlock == LastBlock(bc)
        dataHash == ComputeDataHash(transactions)
        prevBlockHash == HeaderHash(lastBlock)
        header == [Version |-> PROTOCOL_VERSION, Height |-> U32(lastBlock.Height + 1),
                   DataHash |-> dataHash, PrevBlockHash |-> prevBlockHash,
                   Timestamp |-> now, Difficulty |-> bc.difficulty]
        got == GeneratePoI(initiator, prevBlockHash, dataHash,
                           [Nodes |-> bc.nodes, Difficulty |-> bc.difficulty], prov)
    IN IF got.err # "nil" THEN [err |-> got.err, block |-> NilBlock]
       ELSE [err |-> "nil", block |-> SetProof(NewBlock(header, transactions), got.poi)]

\* Blockchain.ValidateBlock: "nil" or the error
ValidateBlock(bc, block) ==
    IF block.nil THEN "ErrInvalidBlock"
    ELSE IF HashString(HeaderHash(block)) \in DOMAIN bc.blocks THEN "ErrBlockAlreadyExists"
    ELSE IF VerifyData(block) # "nil" THEN VerifyData(block)
    ELSE IF block.HasProof
            /\ VerifyProof(block, [Nodes |-> bc.nodes, Difficulty |-> block.Difficulty]) # "nil"
    THEN "ErrPoIVerification"
    ELSE "nil"

\* variant: the interval is measured from the block after the first one
adjustDifficulty_FromSecond(bc) ==
    IF bc.currentHeight < DIFFICULTY_ADJUSTMENT_INTERVAL
    THEN [panic |-> FALSE, difficulty |-> bc.difficulty]
    ELSE LET startIdx == bc.currentHeight - DIFFICULTY_ADJUSTMENT_INTERVAL + 1
             endIdx == bc.currentHeight
         IN IF endIdx >= Len(bc.longestChain)
            THEN [panic |-> TRUE, difficulty |-> bc.difficulty]
            ELSE LET timeDiff == bc.longestChain[endIdx + 1].Timestamp
                                    - bc.longestChain[startIdx + 1].Timestamp
                 IN [panic |-> FALSE,
                     difficulty |-> AdjustDifficulty(bc.difficulty,
                                        TARGET_BLOCK_TIME * DIFFICULTY_ADJUSTMENT_INTERVAL,
                                        timeDiff)]

\* Blockchain.adjustDifficulty: [panic, difficulty].  The two reads of
\* longestChain panic when the index is out of range.
adjustDifficulty(bc) ==
    IF bc.currentHeight < DIFFICULTY_ADJUSTMENT_INTERVAL
    THEN [panic |-> FALSE, difficulty |-> bc.difficulty]
    ELSE LET startIdx == bc.currentHeight - DIFFICULTY_ADJUSTMENT_INTERVAL
             endIdx == bc.currentHeight
         IN IF endIdx >= Len(bc.longestChain)
            THEN [panic |-> TRUE, difficulty |-> bc.difficulty]
            ELSE LET timeDiff == bc.longestChain[endIdx + 1].Timestamp
                                    - bc.longestChain[startIdx + 1].Timestamp
                 IN [panic |-> FALSE,
                     difficulty |-> AdjustDifficulty(bc.difficulty,
                                        TARGET_BLOCK_TIME * DIFFICULTY_ADJUSTMENT_INTERVAL,
                                        timeDiff)]

\* variant: a block of the current height replaces the last block
ExtendsChain_OrEqual(bc, block) == block.Height >= bc.currentHeight

\* block.Height > bc.currentHeight: the block extends the longest chain
ExtendsChain(bc, block) == block.Height > bc.currentHeight

\* AddBlock after the validation, under bc.mu: [err, bc, received]
InsertBlock(bc, rcv, block) ==
    LET b == Cached(block)
        atHeight == IF b.Height \in DOMAIN bc.blocksByHeight
                    THEN bc.blocksByHeight[b.Height] ELSE <<>>
        indexed == [bc EXCEPT
                      !.blocks = MapPut(@, HashString(HeaderHash(b)), b),
                      !.blocksByHeight = MapPut(@, b.Height, Append(atHeight, b))]
    IN IF ~ExtendsChain(bc, b)
       THEN [err |-> "nil", bc |-> indexed, received |-> rcv]
       ELSE LET extended == [indexed EXCEPT !.longestChain = Append(@, b),
                                            !.currentHeight = b.Height]
                adjusts == b.Height % DIFFICULTY_ADJUSTMENT_INTERVAL = 0 /\ b.Height > 0
                adj == adjustDifficulty(extended)
            IN IF adjusts /\ adj.panic
               THEN [err |-> "panic", bc |-> extended, received |-> rcv]
               ELSE [err |-> "nil",
                     bc |-> IF adjusts
                            THEN [extended EXCEPT !.difficulty = adj.difficulty]
                            ELSE extended,
                     received |-> IF bc.hasTracker /\ b.Height > 0
                                  THEN Clear(rcv, b.PrevBlockHash)
                                  ELSE rcv]

\* variant: the block is inserted before it is validated
AddBlock_InsertsFirst(bc, rcv, block) ==
    LET invalid == ValidateBlock(bc, block)
    IN IF block.nil THEN [err |-> invalid, bc |-> bc, received |-> rcv]
       ELSE [InsertBlock(bc, rcv, block) EXCEPT !.err = invalid]

\* variant: the longest chain is updated inside the tracker branch only
AddBlock_NeedsTracker(bc, rcv, block) ==
    LET invalid == ValidateBlock(bc, block)
        r == InsertBlock(bc, rcv, block)
    IN IF invalid # "nil" THEN [err |-> invalid, bc |-> bc, received |-> rcv]
       ELSE IF bc.hasTracker THEN r
       ELSE [r EXCEPT !.bc.longestChain = bc.longestChain,
                      !.bc.currentHeight = bc.currentHeight]

\* Blockchain.AddBlock on a chain whose tracker holds rcv: [err, bc, received]
AddBlock(bc, rcv, block) ==
    LET invalid == ValidateBlock(bc, block)
    IN IF invalid # "nil" THEN [err |-> invalid, bc |-> bc, received |-> rcv]
       ELSE InsertBlock(bc, rcv, block)

\* the header hashes of the blocks of the longest chain
ChainHashes(bc) == {HeaderHash(bc.longestChain[i]) : i \in 1..Len(bc.longestChain)}

\* variant: every indexed block is accepted as a dependency
OnLongestChain_AnyIndexedBlock(bc, dependency) ==
    HashString(dependency) \in DOMAIN bc.blocks

\* the dependency test of CheckMessage: the last block's hash, or the hash of
\* an older block of the longest chain
OnLongestChain(bc, dependency) ==
    \/ dependency = HeaderHash(LastBlock(bc))
    \/ \E i \in 1..Len(bc.longestChain) : HeaderHash(bc.longestChain[i]) = dependency

\* Blockchain.CheckMessage: [err, received]
CheckMessage(bc, rcv, from, dependency, message) ==
    IF ~OnLongestChain(bc, dependency)
    THEN [err |-> "ErrInvalidDependency", received |-> rcv]
    ELSE IF bc.hasTracker
    THEN LET r == CheckAndRecord(rcv, from, dependency, message)
         IN [err |-> r.err, received |-> r.received]
    ELSE [err |-> "nil", received |-> rcv]

\* Blockchain.HandleSignatureRequest(req, nodePrivateKey): [err, sig, received]
HandleSignatureRequest(bc, rcv, req, nodePrivateKey, n) ==
    LET r == CheckMessage(bc, rcv, req.From, req.Dependency, req.Message)
    IN IF r.err # "nil" THEN [err |-> r.err, sig |-> <<>>, received |-> r.received]
       ELSE [err |-> "nil",
             sig |-> Sign(nodePrivateKey, Blake(SignatureRequestBytes(req)), n),
             received |-> r.received]

(***************************************************************************)
(* The values the operations are called with.                              *)
(***************************************************************************)
SenderKeys == {1, 2}
Senders == {AddressOf(PublicKeyOf(k)) : k \in SenderKeys}
Deps == {Blake(<<d>>) : d \in {1, 2}}
Msgs == {Blake(<<m, m>>) : m \in 1..NumMsgs}

NoOp == [name |-> "none", from |-> ZeroHash, dependency |-> ZeroHash,
         message |-> ZeroHash, err |-> "nil", seen |-> FALSE]

TwinIdle == twin = [currentHeight |-> 0]

NodeIdle ==
    /\ blockchain = [currentHeight |-> 0]
    /\ pool = {}
    /\ signed = {}
    /\ TwinIdle

\* no RequestSignature call and no response being handled
ReqIdle ==
    /\ reqs = <<>>
    /\ pendingRequests = <<>>
    /\ requestCounter = 0
    /\ handler = [pc |-> "off"]

\* no ledger, no concurrent AddBlock call, no transport history, no request
LateIdle ==
    /\ ledger = <<>>
    /\ writers = <<>>
    /\ wire = <<>>
    /\ ReqIdle

\* no call of AdjustDifficulty, createServices or tourLength
PureIdle ==
    /\ adjCall = [pc |-> "off"]
    /\ tourCall = [pc |-> "off"]
    /\ LateIdle

ConcIdle ==
    /\ calls = <<>>
    /\ trackerMu = {}
    /\ chainReaders = {}

LoopIdle ==
    /\ peers = <<>>
    /\ rpcCh = <<>>
    /\ loop = [pc |-> "off"]
    /\ reqCount = <<>>

PoIIdle ==
    /\ pIn = [initiator |-> 0]
    /\ pOut = [err |-> "nil", poi |-> NoProof]
    /\ pChk = [kind |-> "none", pos |-> 0, poi |-> NoProof, err |-> "nil"]
    /\ pPc = "off"

(***************************************************************************)
(* SpecTracker: a PoIMessageTracker and its two methods.                   *)
(***************************************************************************)
TrackerInit ==
    /\ received = EmptyMap
    /\ op = NoOp
    /\ PoIIdle
    /\ PureIdle
    /\ NodeIdle
    /\ ConcIdle
    /\ LoopIdle

TrackerCheckAndRecord ==
    \E from \in Senders, dependency \in Deps, message \in Msgs :
        LET r == CheckAndRecord(received, from, dependency, message)
        IN /\ received' = r.received
           /\ op' = [name |-> "CheckAndRecord", from |-> from, dependency |-> dependency,
                     message |-> message, err |-> r.err, seen |-> r.seen]
           /\ UNCHANGED trackerFrame

TrackerClear ==
    \E dependency \in Deps :
        /\ received' = Clear(received, dependency)
        /\ op' = [name |-> "Clear", from |-> ZeroHash, dependency |-> dependency,
                  message |-> ZeroHash, err |-> "nil", seen |-> FALSE]
        /\ UNCHANGED trackerFrame

TrackerNext == TrackerCheckAndRecord \/ TrackerClear

SpecTracker == TrackerInit /\ [][TrackerNext]_vars

(***************************************************************************)
(* C1.  Once CheckAndRecord(from, d, m1) has succeeded, the entry of       *)
(* (from, d) is m1; it stays m1 through every step that is not Clear(d);   *)
(* and a CheckAndRecord(from, d, m2) with m2 # m1 made while it is there   *)
(* returns the double-touring error and leaves the entry m1.               *)
(***************************************************************************)
C1_Step ==
    /\ (op'.name = "CheckAndRecord" /\ op'.err = "nil")
          => /\ HasEntry(received', op'.from, op'.dependency)
             /\ EntryOf(received', op'.from, op'.dependency) = op'.message
    /\ \A f \in Senders, d \in Deps :
          (HasEntry(received, f, d) /\ ~(op'.name = "Clear" /\ op'.dependency = d))
             => /\ HasEntry(received', f, d)
                /\ EntryOf(received', f, d) = EntryOf(received, f, d)
                /\ (op'.name = "CheckAndRecord" /\ op'.from = f /\ op'.dependency = d
                       /\ op'.message # EntryOf(received, f, d))
                      => op'.err = "ErrDoubleTouringDetected"

C1_DoubleTouringRejected == [][C1_Step]_vars

\* a second, different message of a recorded (from, d) has just been rejected
C1_Witness ==
    /\ op.name = "CheckAndRecord"
    /\ op.err = "ErrDoubleTouringDetected"
    /\ HasEntry(received, op.from, op.dependency)
    /\ EntryOf(received, op.from, op.dependency) # op.message

(***************************************************************************)
(* C4.  A CheckAndRecord(from, d, m) made while the entry of (from, d) is  *)
(* already m (a retry) returns nil and leaves the tracker exactly as it    *)
(* was.                                                                    *)
(***************************************************************************)
C4_Step ==
    (/\ op'.name = "CheckAndRecord"
     /\ HasEntry(received, op'.from, op'.dependency)
     /\ EntryOf(received, op'.from, op'.dependency) = op'.message)
        => /\ op'.err = "nil"
           /\ op'.seen
           /\ received' = received

C4_RetryIdempotent == [][C4_Step]_vars

\* a retry has just succeeded: the call found its own message recorded
C4_Witness ==
    /\ op.name = "CheckAndRecord"
    /\ op.seen
    /\ op.err = "nil"
    /\ EntryOf(received, op.from, op.dependency) = op.message

(***************************************************************************)
(* C5.  Clear(d) removes the entry of d for every sender, so that the next *)
(* CheckAndRecord(A, d, m3) succeeds whatever A and m3 are, and it leaves  *)
(* the entries of every other dependency as they were.                     *)
(***************************************************************************)
C5_Step ==
    /\ op'.name = "Clear"
          => \A f \in Senders, d \in Deps :
                IF d = op'.dependency
                THEN ~HasEntry(received', f, d)
                ELSE /\ HasEntry(received', f, d) = HasEntry(received, f, d)
                     /\ HasEntry(received, f, d)
                           => EntryOf(received', f, d) = EntryOf(received, f, d)
    /\ (op.name = "Clear" /\ op'.name = "CheckAndRecord"
           /\ op'.dependency = op.dependency)
          => /\ op'.err = "nil"
             /\ EntryOf(received', op'.from, op'.dependency) = op'.message

C5_ClearFrame == [][C5_Step]_vars

\* Clear(d) has just removed an entry of d while another dependency keeps one
C5_Witness ==
    /\ op.name = "Clear"
    /\ \E f \in Senders, d \in Deps : d # op.dependency /\ HasEntry(received, f, d)
    /\ \E f \in Senders : HashString(f) \in DOMAIN received
                             /\ DOMAIN received[HashString(f)] = {}

(***************************************************************************)
(* SpecPoI: one GeneratePoI call on drawn arguments, then one CheckPoI     *)
(* call on the proof it returned: with the same arguments, with one        *)
(* argument changed, with one signature replaced, or with the list of tour *)
(* signatures shortened or extended.                                       *)
(***************************************************************************)
InitiatorKeys == {1, 9}
AllKeys == (1..MaxNodes) \cup InitiatorKeys
NodeLists == {[i \in 1..n |-> PublicKeyOf(i)] : n \in 0..MaxNodes}
Difficulties == {[Min |-> a, Max |-> b] : a, b \in 0..MaxTour}
Providers == {[rnd |-> n, failAt |-> f, forgeAt |-> 0] : n \in Nonces, f \in {0, 1}}

PoIContext(in) == [Nodes |-> in.nodes, Difficulty |-> in.difficulty]

NoCheck == [kind |-> "none", pos |-> 0, poi |-> NoProof, err |-> "nil"]

\* the signatures of a proof, InitialSig at position 0
SigAt(poi, pos) == IF pos = 0 THEN poi.InitialSig ELSE poi.TourSignatures[pos]

WithSigAt(poi, pos, sig) ==
    IF pos = 0 THEN [poi EXCEPT !.InitialSig = sig]
    ELSE [poi EXCEPT !.TourSignatures[pos] = sig]

\* what sig was made over, and by whom, when it is a signature
SignedHash(sig) == SubSeq(sig, 4, Len(sig))

\* The signatures an attacker may put in the place of sig: the same hash signed
\* by any key with any nonce, another hash signed by the same key, a byte
\* string that is no signature; each different from sig.
Replacements(sig) ==
    ({Sign(k, SignedHash(sig), n) : k \in {sig[2], 9, 2}, n \in Nonces}
        \cup {Sign(sig[2], Blake(<<0>>), sig[3]), GarbageSig}) \ {sig}

PoIInit ==
    /\ received = EmptyMap
    /\ op = NoOp
    /\ pIn \in [initiator : InitiatorKeys, dependency : Deps, message : Msgs,
                nodes : NodeLists, difficulty : Difficulties, prov : Providers]
    /\ pOut = [err |-> "nil", poi |-> NoProof]
    /\ pChk = NoCheck
    /\ pPc = "new"
    /\ NodeIdle
    /\ PureIdle
    /\ ConcIdle
    /\ LoopIdle

PoIGenerate ==
    /\ pPc = "new"
    /\ pOut' = GeneratePoI(pIn.initiator, pIn.dependency, pIn.message,
                           PoIContext(pIn), pIn.prov)
    /\ pPc' = IF pOut'.err = "nil" THEN "generated" ELSE "failed"
    /\ UNCHANGED <<pIn, pChk, poiFrame>>

\* CheckPoI with the arguments of the GeneratePoI call
PoICheckSame ==
    /\ pPc = "generated"
    /\ pChk' = [kind |-> "same", pos |-> 0, poi |-> pOut.poi,
                err |-> CheckPoI(pOut.poi, PublicKeyOf(pIn.initiator), pIn.dependency,
                                 pIn.message, PoIContext(pIn))]
    /\ pPc' = "checked"
    /\ UNCHANGED <<pIn, pOut, poiFrame>>

\* CheckPoI with another initiator key, another dependency or another message
PoICheckOther ==
    /\ pPc = "generated"
    /\ \/ \E k \in AllKeys \ {pIn.initiator} :
             pChk' = [kind |-> "otherInitiator", pos |-> 0, poi |-> pOut.poi,
                      err |-> CheckPoI(pOut.poi, PublicKeyOf(k), pIn.dependency,
                                       pIn.message, PoIContext(pIn))]
       \/ \E d \in Deps \ {pIn.dependency} :
             pChk' = [kind |-> "otherDependency", pos |-> 0, poi |-> pOut.poi,
                      err |-> CheckPoI(pOut.poi, PublicKeyOf(pIn.initiator), d,
                                       pIn.message, PoIContext(pIn))]
       \/ \E m \in Msgs \ {pIn.message} :
             pChk' = [kind |-> "otherMessage", pos |-> 0, poi |-> pOut.poi,
                      err |-> CheckPoI(pOut.poi, PublicKeyOf(pIn.initiator), pIn.dependency,
                                       m, PoIContext(pIn))]
    /\ pPc' = "checked"
    /\ UNCHANGED <<pIn, pOut, poiFrame>>

\* CheckPoI on the proof with the signature at one position replaced
PoICheckReplaced ==
    /\ pPc = "generated"
    /\ \E pos \in 0..Len(pOut.poi.TourSignatures) :
         \E sig \in Replacements(SigAt(pOut.poi, pos)) :
            LET poi == WithSigAt(pOut.poi, pos, sig)
            IN pChk' = [kind |-> "replaced", pos |-> pos, poi |-> poi,
                        err |-> CheckPoI(poi, PublicKeyOf(pIn.initiator), pIn.dependency,
                                         pIn.message, PoIContext(pIn))]
    /\ pPc' = "checked"
    /\ UNCHANGED <<pIn, pOut, poiFrame>>

\* CheckPoI on the proof with tour signatures dropped from or added to its end
PoICheckResized ==
    /\ pPc = "generated"
    /\ \E n \in 0..(Len(pOut.poi.TourSignatures) + 2) :
         /\ n # Len(pOut.poi.TourSignatures)
         /\ LET sigs == [i \in 1..n |-> IF i <= Len(pOut.poi.TourSignatures)
                                        THEN pOut.poi.TourSignatures[i] ELSE GarbageSig]
                poi == [pOut.poi EXCEPT !.TourSignatures = sigs]
            IN pChk' = [kind |-> "resized", pos |-> n, poi |-> poi,
                        err |-> CheckPoI(poi, PublicKeyOf(pIn.initiator), pIn.dependency,
                                         pIn.message, PoIContext(pIn))]
    /\ pPc' = "checked"
    /\ UNCHANGED <<pIn, pOut, poiFrame>>

PoINext ==
    \/ PoIGenerate
    \/ PoICheckSame
    \/ PoICheckOther
    \/ PoICheckReplaced
    \/ PoICheckResized

SpecPoI == PoIInit /\ [][PoINext]_vars

(***************************************************************************)
(* C8.  With a valid difficulty, a non-empty service subset and a provider *)
(* that has each selected service sign hash(h || dependency || message),   *)
(* GeneratePoI returns a proof, and CheckPoI called with the initiator's   *)
(* public key and the same dependency, message and context accepts it.     *)
(***************************************************************************)
C8_RoundTrip ==
    /\ (pPc # "new" /\ Validate(pIn.difficulty) /\ Len(pIn.nodes) >= 2
           /\ pIn.prov.failAt = 0) => pOut.err = "nil"
    /\ pChk.kind = "same" => pChk.err = "nil"

\* a proof of a tour of two hops over a service subset of two was accepted
C8_Witness ==
    /\ pChk.kind = "same"
    /\ pChk.err = "nil"
    /\ Len(pChk.poi.TourSignatures) = 4
    /\ Len(createServices(pIn.nodes, pChk.poi.InitialSig)) = 2

(***************************************************************************)
(* C9.  CheckPoI rejects a proof of GeneratePoI checked against another    *)
(* initiator key, another dependency or another message, and a proof in    *)
(* which any one signature was replaced by a different signature.          *)
(***************************************************************************)
C9_RejectsAnyChange ==
    pChk.kind \in {"otherInitiator", "otherDependency", "otherMessage", "replaced"}
        => pChk.err # "nil"

(***************************************************************************)
(* C10.  CheckPoI accepts a proof only if it has exactly 2L tour           *)
(* signatures, L = tourLength(ctx.Difficulty, proof.InitialSig), and every *)
(* proof GeneratePoI returns has exactly 2L.                               *)
(***************************************************************************)
C10_ExactLength ==
    /\ pPc = "generated"
          => Len(pOut.poi.TourSignatures)
                = 2 * tourLength(pIn.difficulty, pOut.poi.InitialSig).length
    /\ (pChk.kind # "none" /\ pChk.err = "nil")
          => Len(pChk.poi.TourSignatures)
                = 2 * tourLength(pIn.difficulty, pChk.poi.InitialSig).length

(***************************************************************************)
(* SpecNode: one PoINode's Blockchain and tracker.  Blocks are generated   *)
(* on the node's chain, blocks of the pool (and damaged or foreign ones)   *)
(* are added, and signature requests are checked and answered.             *)
(***************************************************************************)
MaxPool == 1
MaxBlocks == 3
MaxSigned == 2

\* Transaction.Sign(privKey): the hash is taken before From is set
TxSign(tx, k, n) ==
    [tx EXCEPT !.From = PublicKeyOf(k), !.Signature = Sign(k, TxHasherHash(tx), n)]

Tx(m) ==
    TxSign([Data |-> <<m>>, To |-> AddressOf(PublicKeyOf(2)), Value |-> m, From |-> <<>>,
            Signature |-> <<>>, Nonce |-> m], 1, 1)

TxLists == {<<>>, <<Tx(1)>>}

\* the BlockchainConfig of the node: MaxNodes known nodes, tours of 1..MaxTour
Config ==
    [Nodes |-> [i \in 1..MaxNodes |-> PublicKeyOf(i)],
     Difficulty |-> [Min |-> 1, Max |-> MaxTour]]

GenesisHeader(difficulty) ==
    [Version |-> PROTOCOL_VERSION, DataHash |-> ZeroHash, PrevBlockHash |-> ZeroHash,
     Height |-> 0, Timestamp |-> 0, Difficulty |-> difficulty]

\* The genesis blocks a caller hands to NewBlockchain: with its difficulty
\* set, and signed (so its hash is cached) with no difficulty.
GenesisBlocks ==
    {NewBlock(GenesisHeader(Config.Difficulty), <<>>),
     BlockSign(NewBlock(GenesisHeader([Min |-> 0, Max |-> 0]), <<>>), 1, 1)}

\* the key of the node that answers signature requests
NodeKey == PrivateKeyOf(Config.Nodes[3])

\* a block with a legacy signature, built on prev at the given height
LegacyBlock(prev, height, txs, now) ==
    BlockSign(NewBlock([Version |-> PROTOCOL_VERSION, DataHash |-> ComputeDataHash(txs),
                        PrevBlockHash |-> HeaderHash(prev), Height |-> height,
                        Timestamp |-> now, Difficulty |-> Config.Difficulty], txs),
              2, 1)

\* What AddBlock may be handed: a block of the pool, such a block without
\* its proof, with another transaction list or with a damaged proof, a
\* legacy block that skips a height, a legacy block of the current height
\* (a fork beside the last block), nil.
Incoming ==
    pool
    \cup {[b EXCEPT !.HasProof = FALSE, !.Proof = NoProof] : b \in pool}
    \cup {[b EXCEPT !.Transactions = <<Tx(2)>>] : b \in pool}
    \cup {[b EXCEPT !.Proof.TourSignatures[1] = GarbageSig] : b \in pool}
    \cup {LegacyBlock(LastBlock(blockchain), blockchain.currentHeight + 2, <<>>, 9)}
    \cup {LegacyBlock(blockchain.genesisBlock, blockchain.currentHeight, <<>>, 8)}
    \cup {NilBlock}

\* the dependencies of requests: the blocks the node knows, the blocks of
\* the pool, and a hash of no block
NodeDeps ==
    {HeaderHash(blockchain.blocks[h]) : h \in DOMAIN blockchain.blocks}
        \cup {HeaderHash(b) : b \in pool} \cup {Blake(<<1>>)}

NodeMsgs == {ComputeDataHash(txs) : txs \in TxLists}

NodeOp(name, from, dependency, message, err, sig, block) ==
    [name |-> name, from |-> from, dependency |-> dependency, message |-> message,
     err |-> err, seen |-> FALSE, sig |-> sig, block |-> block, twinErr |-> "nil"]

NodeInit ==
    /\ \E g \in GenesisBlocks : blockchain = SetMessageTracker(NewBlockchain(Config, g))
    /\ received = EmptyMap
    /\ twin = NewBlockchain(Config, blockchain.genesisBlock)
    /\ pool = {}
    /\ signed = {}
    /\ op = NoOp
    /\ PoIIdle
    /\ PureIdle
    /\ ConcIdle
    /\ LoopIdle

\* Blockchain.GenerateBlock with an honest signature provider
NodeGenerateBlock ==
    /\ Cardinality(pool) < MaxPool
    /\ \E initiator \in SenderKeys, txs \in TxLists :
          LET r == GenerateBlock(blockchain, initiator, txs, [rnd |-> 1, failAt |-> 0, forgeAt |-> 0],
                                 Cardinality(DOMAIN blockchain.blocks))
          IN /\ pool' = IF r.err = "nil" THEN pool \cup {r.block} ELSE pool
             /\ op' = NodeOp("GenerateBlock", AddressOf(PublicKeyOf(initiator)),
                             r.block.PrevBlockHash, r.block.DataHash, r.err, <<>>, r.block)
    /\ UNCHANGED <<blockchain, received, signed, twin, nodeFrame>>

\* Blockchain.AddBlock on the node's chain, then on the second chain with
\* the same *Block: its hash cache was filled by the first call
NodeAddBlock ==
    /\ Cardinality(DOMAIN blockchain.blocks) < MaxBlocks
    /\ \E block \in Incoming :
          LET r == AddBlock(blockchain, received, block)
              t == AddBlock(twin, EmptyMap, IF block.nil THEN block ELSE Cached(block))
          IN /\ blockchain' = r.bc
             /\ received' = r.received
             /\ twin' = t.bc
             /\ op' = [NodeOp("AddBlock", ZeroHash, block.PrevBlockHash, block.DataHash,
                              r.err, <<>>, block) EXCEPT !.twinErr = t.err]
    /\ UNCHANGED <<pool, signed, nodeFrame>>

\* Blockchain.HandleSignatureRequest
NodeHandleSignatureRequest ==
    /\ Cardinality(signed) < MaxSigned
    /\ \E from \in Senders, dependency \in NodeDeps, message \in NodeMsgs :
          LET req == [From |-> from, Hash |-> hashConcat(<<0>>, dependency),
                      Dependency |-> dependency, Message |-> message]
              r == HandleSignatureRequest(blockchain, received, req, NodeKey, 1)
          IN /\ received' = r.received
             /\ signed' = IF r.err = "nil"
                          THEN signed \cup {<<from, dependency, message>>}
                          ELSE signed
             /\ op' = NodeOp("HandleSignatureRequest", from, dependency, message,
                             r.err, r.sig, NilBlock)
    /\ UNCHANGED <<blockchain, pool, twin, nodeFrame>>

NodeNext ==
    \/ NodeGenerateBlock
    \/ NodeAddBlock
    \/ NodeHandleSignatureRequest

SpecNode == NodeInit /\ [][NodeNext]_vars

(***************************************************************************)
(* C2.  Over every sequence of HandleSignatureRequest and AddBlock calls,  *)
(* the node never signs two different messages of one sender for one       *)
(* dependency.                                                             *)
(***************************************************************************)
C2_NoEquivocation ==
    \A x \in signed, y \in signed : (x[1] = y[1] /\ x[2] = y[2]) => x[3] = y[3]

(***************************************************************************)
(* C6.  A CheckMessage or HandleSignatureRequest whose dependency is not   *)
(* the header hash of a block of the longest chain returns the             *)
(* invalid-dependency error, records nothing and signs nothing.            *)
(***************************************************************************)
C6_Step ==
    (/\ op'.name = "HandleSignatureRequest"
     /\ op'.dependency \notin ChainHashes(blockchain))
        => /\ op'.err = "ErrInvalidDependency"
           /\ received' = received
           /\ signed' = signed
           /\ op'.sig = <<>>

C6_InvalidDependency == [][C6_Step]_vars

\* a request that names a block the node knows, but off its longest chain,
\* has just been refused
C6_Witness ==
    /\ op.name = "HandleSignatureRequest"
    /\ op.err = "ErrInvalidDependency"
    /\ HashString(op.dependency) \in DOMAIN blockchain.blocks
    /\ received # EmptyMap

(***************************************************************************)
(* C11.  An AddBlock call that returns an error (nil block, hash already   *)
(* indexed, data-hash mismatch, neither signature nor proof, failed PoI    *)
(* check) leaves the blockchain and the tracker as they were: the hash     *)
(* index, the height index, the longest chain, the current height and the  *)
(* difficulty; on the node's chain and on the chain without a tracker.     *)
(***************************************************************************)
C11_Step ==
    /\ (op'.name = "AddBlock" /\ op'.err \notin {"nil", "panic"})
          => /\ blockchain' = blockchain
             /\ received' = received
    /\ (op'.name = "AddBlock" /\ op'.twinErr \notin {"nil", "panic"}) => twin' = twin

C11_FailedAddBlockChangesNothing == [][C11_Step]_vars

\* a block with a damaged proof has just been refused by a chain that has
\* grown and whose tracker holds entries
C11_Witness ==
    /\ op.name = "AddBlock"
    /\ op.err = "ErrPoIVerification"
    /\ blockchain.currentHeight > 0
    /\ \E f \in DOMAIN received : DOMAIN received[f] # {}

(***************************************************************************)
(* C12.  A successful AddBlock(b) indexes b by hash and appends it to the  *)
(* blocks of its height.  With b.Height above the current height b becomes *)
(* LastBlock() and Height() becomes b.Height; otherwise the longest chain, *)
(* Height(), LastBlock() and the difficulty stay as they were.             *)
(***************************************************************************)
C12_Step ==
    (op'.name = "AddBlock" /\ op'.err = "nil" /\ blockchain' # blockchain) =>
        LET b == Cached(op'.block)
            before == IF b.Height \in DOMAIN blockchain.blocksByHeight
                      THEN blockchain.blocksByHeight[b.Height] ELSE <<>>
        IN /\ blockchain'.blocks[HashString(HeaderHash(b))] = b
           /\ blockchain'.blocksByHeight[b.Height] = Append(before, b)
           /\ \A h \in DOMAIN blockchain.blocksByHeight \ {b.Height} :
                 blockchain'.blocksByHeight[h] = blockchain.blocksByHeight[h]
           /\ b.Height > blockchain.currentHeight
                 => /\ LastBlock(blockchain') = b
                    /\ blockchain'.currentHeight = b.Height
           /\ b.Height <= blockchain.currentHeight
                 => /\ blockchain'.longestChain = blockchain.longestChain
                    /\ blockchain'.currentHeight = blockchain.currentHeight
                    /\ LastBlock(blockchain') = LastBlock(blockchain)
                    /\ blockchain'.difficulty = blockchain.difficulty

C12_AddBlockEffect == [][C12_Step]_vars

\* a block below the current height was accepted: it shares its height
\* with no block of the longest chain or sits beside one
C12_Witness ==
    /\ op.name = "AddBlock"
    /\ op.err = "nil"
    /\ op.block.Height < blockchain.currentHeight
    /\ HashString(HeaderHash(op.block)) \in DOMAIN blockchain.blocks
    /\ LastBlock(blockchain) # Cached(op.block)

C27_OnlyProvenBlocks ==
    \A h \in DOMAIN blockchain.blocks :
        LET b == blockchain.blocks[h]
        IN /\ b.Height > 0 =>
                 VerifyProof(b, [Nodes |-> blockchain.nodes,
                                 Difficulty |-> b.Difficulty]) = "nil"
           /\ ~b.HasProof => b = blockchain.genesisBlock

(***************************************************************************)
(* C30.  After every successful AddBlock(b) with b.Height > 0 the tracker  *)
(* holds no entry keyed by the dependency b.PrevBlockHash for any sender,  *)
(* and the entries keyed by other dependencies are unchanged.              *)
(***************************************************************************)
\* the tracker after the step: nothing under dependency, the rest as before
C30_Cleared(dependency) ==
    /\ \A f \in DOMAIN received' : HashString(dependency) \notin DOMAIN received'[f]
    /\ \A f \in DOMAIN received : \A d \in DOMAIN received[f] \ {HashString(dependency)} :
          /\ f \in DOMAIN received'
          /\ d \in DOMAIN received'[f]
          /\ received'[f][d] = received[f][d]
    /\ \A f \in DOMAIN received' : \A d \in DOMAIN received'[f] :
          f \in DOMAIN received /\ d \in DOMAIN received[f]

C30_Step ==
    (op'.name = "AddBlock" /\ op'.err = "nil" /\ op'.block.Height > 0)
        => C30_Cleared(op'.block.PrevBlockHash)

C30_AddBlockClearsDependency == [][C30_Step]_vars

(***************************************************************************)
(* C30, amended.  After every successful AddBlock(b) with b.Height above   *)
(* the current height of the chain the tracker holds no entry keyed by the *)
(* dependency b.PrevBlockHash for any sender, and the entries keyed by     *)
(* other dependencies are unchanged.                                       *)
(***************************************************************************)
C30_StepExtending ==
    (op'.name = "AddBlock" /\ op'.err = "nil"
        /\ op'.block.Height > blockchain.currentHeight)
        => C30_Cleared(op'.block.PrevBlockHash)

C30_ExtendingAddBlockClearsDependency == [][C30_StepExtending]_vars

\* the block added is the last block, a sender's entry for its dependency is
\* gone and an entry for another dependency is still there
C30_Witness ==
    /\ op.name = "AddBlock"
    /\ op.err = "nil"
    /\ op.block.Height > 0
    /\ HeaderHash(LastBlock(blockchain)) = HeaderHash(op.block)
    /\ \E f \in DOMAIN received : received[f] = EmptyMap
    /\ \E f \in DOMAIN received : received[f] # EmptyMap

(***************************************************************************)
(* SpecMint: a node generates blocks on its chain, with signed or unsigned *)
(* transactions and with providers that answer, fail or hand back a        *)
(* signature of somebody else, and adds the block it holds or a block of   *)
(* another node.                                                           *)
(***************************************************************************)
\* a transaction nobody signed
UnsignedTx ==
    [Data |-> <<3>>, To |-> AddressOf(PublicKeyOf(2)), Value |-> 3, From |-> <<>>,
     Signature |-> <<>>, Nonce |-> 3]

MintTxLists == TxLists \cup {<<UnsignedTx>>}

\* honest, failing at the first or the second hop, forging at the first hop
MintProviders ==
    {[rnd |-> 1, failAt |-> f, forgeAt |-> 0] : f \in 0..MaxTour}
        \cup {[rnd |-> 1, failAt |-> 0, forgeAt |-> 1]}

\* the blocks of other nodes: the next block of the chain, a block one
\* below the first difficulty adjustment, and a block of the largest height
MintForeign ==
    {LegacyBlock(LastBlock(blockchain), U32(blockchain.currentHeight + 1), <<>>, 9),
     LegacyBlock(LastBlock(blockchain), DIFFICULTY_ADJUSTMENT_INTERVAL - 1, <<>>, 9),
     LegacyBlock(LastBlock(blockchain), MaxUint32, <<>>, 9)}

\* the difficulty of a node configured with shorter tours
EasierDifficulty == [Min |-> 1, Max |-> 1]

\* the block a node with the same chain and the easier difficulty generates
MintEasier ==
    LET r == GenerateBlock([blockchain EXCEPT !.difficulty = EasierDifficulty], 1, <<>>,
                           [rnd |-> 1, failAt |-> 0, forgeAt |-> 0], 9)
    IN IF r.err = "nil" THEN {r.block} ELSE {}

MintOp(name, err, block, prov, initiator, transactions) ==
    [name |-> name, err |-> err, block |-> block, prov |-> prov, initiator |-> initiator,
     transactions |-> transactions]

MintInit ==
    /\ \E g \in GenesisBlocks : blockchain = SetMessageTracker(NewBlockchain(Config, g))
    /\ received = EmptyMap
    /\ pool = {}
    /\ signed = {}
    /\ TwinIdle
    /\ op = NoOp
    /\ PoIIdle
    /\ PureIdle
    /\ ConcIdle
    /\ LoopIdle

\* block, err := bc.GenerateBlock(...): the caller holds the block returned
MintGenerateBlock ==
    /\ Cardinality(DOMAIN blockchain.blocks) < MaxBlocks
    /\ \E initiator \in SenderKeys, txs \in MintTxLists, prov \in MintProviders :
          LET r == GenerateBlock(blockchain, initiator, txs, prov,
                                 Cardinality(DOMAIN blockchain.blocks))
          IN /\ pool' = IF r.err = "nil" THEN {r.block} ELSE pool
             /\ op' = MintOp("GenerateBlock", r.err, r.block, prov, initiator, txs)
    /\ UNCHANGED <<blockchain, received, signed, twin, nodeFrame>>

\* bc.AddBlock of the block held, or of a block of another node
MintAddBlock ==
    /\ Cardinality(DOMAIN blockchain.blocks) < MaxBlocks
    /\ \E block \in pool \cup MintForeign \cup MintEasier :
          LET r == AddBlock(blockchain, received, block)
          IN /\ blockchain' = r.bc
             /\ received' = r.received
             /\ op' = MintOp("AddBlock", r.err, block,
                            [rnd |-> 1, failAt |-> 0, forgeAt |-> 0], 0,
                            block.Transactions)
    /\ UNCHANGED <<pool, signed, twin, nodeFrame>>

MintNext ==
    \/ MintGenerateBlock
    \/ MintAddBlock

SpecMint == MintInit /\ [][MintNext]_vars

(***************************************************************************)
(* C14.  A block returned by GenerateBlock has Height = LastBlock().Height *)
(* + 1, PrevBlockHash = the header hash of LastBlock() and Difficulty =    *)
(* the chain's difficulty; when no block is added between, AddBlock        *)
(* accepts the block and it becomes LastBlock().  Stated for the calls the *)
(* claim is about: the transactions carry signatures, the provider returns *)
(* the selected services' signatures and LastBlock().Height is below the   *)
(* largest uint32.                                                         *)
(***************************************************************************)
\* b was built on the last block of bc with the difficulty of bc
C14_Snapshot(b, bc) ==
    /\ b.Height = LastBlock(bc).Height + 1
    /\ b.PrevBlockHash = HeaderHash(LastBlock(bc))
    /\ b.Difficulty = bc.difficulty

\* this step is the AddBlock of the block GenerateBlock has just returned
C14_AddsGenerated ==
    /\ op.name = "GenerateBlock"
    /\ op.err = "nil"
    /\ op'.name = "AddBlock"
    /\ op'.block = op.block

C14_Step ==
    /\ (op'.name = "GenerateBlock" /\ op'.err = "nil"
           /\ LastBlock(blockchain).Height < MaxUint32)
          => C14_Snapshot(op'.block, blockchain)
    /\ (C14_AddsGenerated
           /\ LastBlock(blockchain).Height < MaxUint32
           /\ (\A i \in 1..Len(op.transactions) : ~TxSignerFails(op.transactions[i]))
           /\ op.prov.forgeAt = 0)
          => /\ op'.err = "nil"
             /\ LastBlock(blockchain') = Cached(op.block)

C14_GeneratedBlockIsNext == [][C14_Step]_vars

(***************************************************************************)
(* C15.  When the signature provider fails at a hop of the tour,           *)
(* GeneratePoI and GenerateBlock return an error and no proof and no       *)
(* block, and the chain of the initiator (block indices, longest chain,    *)
(* height, difficulty) and its tracker are what they were.                 *)
(***************************************************************************)
C15_Step ==
    LET dependency == HeaderHash(LastBlock(blockchain))
        s0 == Sign(op'.initiator, dependency, op'.prov.rnd)
        hops == tourLength(blockchain.difficulty, s0).length
        got == GeneratePoI(op'.initiator, dependency, ComputeDataHash(op'.transactions),
                           [Nodes |-> blockchain.nodes, Difficulty |-> blockchain.difficulty],
                           op'.prov)
    IN (op'.name = "GenerateBlock" /\ op'.prov.failAt \in 1..hops)
          => /\ got.err # "nil"
             /\ got.poi = NoProof
             /\ op'.err # "nil"
             /\ op'.block = NilBlock
             /\ pool' = pool
             /\ blockchain' = blockchain
             /\ received' = received

C15_FailedGenerationChangesNothing == [][C15_Step]_vars

\* the provider failed at the second hop of a tour, on a chain that has
\* grown, while the caller holds an earlier block
C15_Witness ==
    /\ op.name = "GenerateBlock"
    /\ op.err = "ErrProvider"
    /\ op.prov.failAt = 2
    /\ blockchain.currentHeight > 0
    /\ pool # {}

(***************************************************************************)
(* C28.  A block whose declared header difficulty differs from the current *)
(* difficulty of the chain is rejected by ValidateBlock and AddBlock.      *)
(***************************************************************************)
C28_Step ==
    (op'.name = "AddBlock" /\ ~op'.block.nil
        /\ op'.block.Difficulty # blockchain.difficulty)
        => /\ ValidateBlock(blockchain, op'.block) # "nil"
           /\ op'.err # "nil"

C28_WrongDifficultyRejected == [][C28_Step]_vars

(***************************************************************************)
(* SpecAdjust: one AdjustDifficulty call on a valid difficulty and         *)
(* positive block times.  The times are whole seconds; the calls whose     *)
(* quotient mean / ratio exceeds the largest uint32 are left out, the      *)
(* conversion of such a float64 being specific to the platform.            *)
(***************************************************************************)
MaxDiff == 6
MaxTime == 4

\* the values of Min and Max: small ones and the largest
DiffValues == (1..MaxDiff) \cup {MaxUint32}

ValidDifficulties ==
    {d \in [Min : DiffValues, Max : DiffValues] : Validate(d)}

AdjustInit ==
    /\ \E current \in ValidDifficulties, target \in 1..MaxTime, actual \in 1..MaxTime :
          /\ (Mean(current) * target) \div actual <= MaxUint32
          /\ adjCall = [pc |-> "new", current |-> current, target |-> target,
                        actual |-> actual, new |-> current]
    /\ tourCall = [pc |-> "off"]
    /\ LateIdle
    /\ received = EmptyMap
    /\ op = NoOp
    /\ PoIIdle
    /\ NodeIdle
    /\ ConcIdle
    /\ LoopIdle

\* newDiff := AdjustDifficulty(currentDiff, targetBlockTime, actualBlockTime, numNodes)
AdjustCall ==
    /\ adjCall.pc = "new"
    /\ adjCall' = [adjCall EXCEPT
                      !.pc = "done",
                      !.new = AdjustDifficulty(adjCall.current, adjCall.target,
                                               adjCall.actual)]
    /\ UNCHANGED <<tourCall, lateVars, trackerVars, poiVars, nodeVars, concVars, loopVars>>

AdjustNext == AdjustCall

SpecAdjust == AdjustInit /\ [][AdjustNext]_vars

(***************************************************************************)
(* C16.  For every valid difficulty and positive target and actual block   *)
(* times, the difficulty AdjustDifficulty returns is valid: Min >= 1 and   *)
(* Min <= Max.                                                             *)
(***************************************************************************)
C16_ResultIsValid ==
    adjCall.pc = "done" => (adjCall.new.Min >= 1 /\ adjCall.new.Min <= adjCall.new.Max)

(***************************************************************************)
(* C17.  With the actual block time below the target the Mean() of the     *)
(* returned difficulty is greater than the Mean() of the current one, and  *)
(* with the actual block time above the target it is smaller.              *)
(***************************************************************************)
C17_MeanFollowsBlockTime ==
    adjCall.pc = "done" =>
        /\ adjCall.actual < adjCall.target => Mean(adjCall.new) > Mean(adjCall.current)
        /\ adjCall.actual > adjCall.target => Mean(adjCall.new) < Mean(adjCall.current)

(***************************************************************************)
(* C18.  AdjustDifficulty preserves the width of the range: Max - Min of   *)
(* the returned difficulty is Max - Min of the current one.                *)
(***************************************************************************)
C18_WidthPreserved ==
    adjCall.pc = "done" =>
        adjCall.new.Max - adjCall.new.Min = adjCall.current.Max - adjCall.current.Min

(***************************************************************************)
(* SpecTour: createServices and tourLength on a drawn node list,           *)
(* difficulty and seed, then GeneratePoI and CheckPoI over the same node   *)
(* list and difficulty.  CheckPoI is given the proof GeneratePoI returned  *)
(* or, when there is none, a proof whose initial signature is the seed.    *)
(***************************************************************************)
\* node lists of 0..MaxNodes members and of about twice DEFAULT_SERVICE_SIZE
TourNodeCounts ==
    (0..MaxNodes) \cup ((2 * DEFAULT_SERVICE_SIZE - 1)..(2 * DEFAULT_SERVICE_SIZE + 2))

TourNodeLists == {[i \in 1..n |-> PublicKeyOf(i)] : n \in TourNodeCounts}

\* Min and Max of a difficulty: 0, small values, the largest
TourValues == (0..MaxTour) \cup {MaxUint32}

\* the tour lengths GeneratePoI is run for
SmallDifficulty(d) == d.Min <= MaxTour /\ d.Max <= MaxTour

TourDifficulties == [Min : TourValues, Max : TourValues]

\* seeds: signatures of a dependency, and a byte string that is no signature
TourSeeds ==
    {Sign(k, d, n) : k \in InitiatorKeys, d \in Deps, n \in Nonces} \cup {GarbageSig}

TourMessage == Blake(<<1, 1>>)

TourContext == [Nodes |-> tourCall.nodes, Difficulty |-> tourCall.difficulty]

TourInit ==
    /\ \E nodes \in TourNodeLists, difficulty \in TourDifficulties, seed \in TourSeeds,
          initiator \in InitiatorKeys, dependency \in Deps :
          tourCall = [pc |-> "new", nodes |-> nodes, difficulty |-> difficulty,
                      seed |-> seed, initiator |-> initiator, dependency |-> dependency,
                      services |-> <<>>, tl |-> [err |-> "nil", length |-> 0],
                      gen |-> [err |-> "nil", poi |-> NoProof],
                      poi |-> NoProof, chk |-> "nil"]
    /\ adjCall = [pc |-> "off"]
    /\ LateIdle
    /\ received = EmptyMap
    /\ op = NoOp
    /\ PoIIdle
    /\ NodeIdle
    /\ ConcIdle
    /\ LoopIdle

tourFrame == <<adjCall, lateVars, trackerVars, poiVars, nodeVars, concVars, loopVars>>

\* services := createServices(nodes, seed)
TourCreateServices ==
    /\ tourCall.pc = "new"
    /\ tourCall' = [tourCall EXCEPT
                       !.pc = "services",
                       !.services = createServices(tourCall.nodes, tourCall.seed)]
    /\ UNCHANGED tourFrame

\* length, err := tourLength(difficulty, seed)
TourLength ==
    /\ tourCall.pc = "services"
    /\ tourCall' = [tourCall EXCEPT
                       !.pc = "length",
                       !.tl = tourLength(tourCall.difficulty, tourCall.seed)]
    /\ UNCHANGED tourFrame

\* poi, err := GeneratePoI(initiator, dependency, message, ctx, provider), for
\* the difficulties whose tours are short
TourGeneratePoI ==
    /\ tourCall.pc = "length"
    /\ SmallDifficulty(tourCall.difficulty)
    /\ \E n \in Nonces :
          tourCall' = [tourCall EXCEPT
                          !.pc = "generated",
                          !.gen = GeneratePoI(tourCall.initiator, tourCall.dependency,
                                              TourMessage, TourContext,
                                              [rnd |-> n, failAt |-> 0, forgeAt |-> 0])]
    /\ UNCHANGED tourFrame

\* err := CheckPoI(poi, initiatorPubKey, dependency, message, ctx)
TourCheckPoI ==
    /\ tourCall.pc = "generated"
    /\ LET poi == IF tourCall.gen.err = "nil" THEN tourCall.gen.poi
                  ELSE [InitialSig |-> tourCall.seed, TourSignatures |-> <<>>]
       IN tourCall' = [tourCall EXCEPT
                          !.pc = "done",
                          !.poi = poi,
                          !.chk = CheckPoI(poi, PublicKeyOf(tourCall.initiator),
                                           tourCall.dependency, TourMessage, TourContext)]
    /\ UNCHANGED tourFrame

TourNext ==
    \/ TourCreateServices
    \/ TourLength
    \/ TourGeneratePoI
    \/ TourCheckPoI

SpecTour == TourInit /\ [][TourNext]_vars

\* the calls made so far
TourHasServices == tourCall.pc \in {"services", "length", "generated", "done"}
TourHasLength == tourCall.pc \in {"length", "generated", "done"}
TourHasGenerated == tourCall.pc \in {"generated", "done"}
TourHasChecked == tourCall.pc = "done"

(***************************************************************************)
(* C19.  For every valid difficulty and every seed tourLength returns a    *)
(* length L with Min <= L <= Max; for every invalid difficulty (Min = 0,   *)
(* Max = 0 or Min > Max) tourLength returns an error, and so do            *)
(* GeneratePoI and CheckPoI.                                               *)
(***************************************************************************)
C19_Invalid(d) == d.Min = 0 \/ d.Max = 0 \/ d.Min > d.Max

C19_TourLengthInRange ==
    LET d == tourCall.difficulty
    IN /\ (TourHasLength /\ ~C19_Invalid(d)) =>
              /\ tourCall.tl.err = "nil"
              /\ d.Min <= tourCall.tl.length
              /\ tourCall.tl.length <= d.Max
       /\ (TourHasLength /\ C19_Invalid(d)) => tourCall.tl.err # "nil"
       /\ (TourHasGenerated /\ C19_Invalid(d)) => tourCall.gen.err # "nil"
       /\ (TourHasChecked /\ C19_Invalid(d)) => tourCall.chk # "nil"

\* a length above Min was drawn for a valid difficulty, and CheckPoI has run
C19_Witness ==
    /\ TourHasChecked
    /\ ~C19_Invalid(tourCall.difficulty)
    /\ tourCall.tl.err = "nil"
    /\ tourCall.tl.length > tourCall.difficulty.Min

(***************************************************************************)
(* C20.  For every node list N and seed createServices returns exactly     *)
(* min(20, floor(|N| / 2)) elements, each an element of N and each         *)
(* position of N used at most once; GeneratePoI and CheckPoI fail with the *)
(* empty-node-list error when that subset is empty (|N| < 2).              *)
(***************************************************************************)
C20_Size(n) == IF n \div 2 < DEFAULT_SERVICE_SIZE THEN n \div 2 ELSE DEFAULT_SERVICE_SIZE

\* the node lists hold each key once, so a position is known by its key
C20_Subset ==
    TourHasServices =>
        /\ Len(tourCall.services) = C20_Size(Len(tourCall.nodes))
        /\ \A i \in 1..Len(tourCall.services) :
              \E p \in 1..Len(tourCall.nodes) : tourCall.nodes[p] = tourCall.services[i]
        /\ \A i, j \in 1..Len(tourCall.services) :
              tourCall.services[i] = tourCall.services[j] => i = j

C20_EmptySubsetRejected ==
    /\ C20_Subset
    /\ (TourHasGenerated /\ Len(tourCall.nodes) < 2) =>
           tourCall.gen.err = "ErrEmptyNodeList"
    /\ (TourHasChecked /\ Len(tourCall.nodes) < 2) => tourCall.chk = "ErrEmptyNodeList"

(***************************************************************************)
(* C20, amended.  As C20, CheckPoI failing with the empty-node-list error  *)
(* when the subset is empty and the initial signature of the proof is the  *)
(* claimed initiator's signature of the dependency.                        *)
(***************************************************************************)
C20_EmptySubsetRejectedAfterInitialSig ==
    /\ C20_Subset
    /\ (TourHasGenerated /\ Len(tourCall.nodes) < 2) =>
           tourCall.gen.err = "ErrEmptyNodeList"
    /\ (/\ TourHasChecked
        /\ Len(tourCall.nodes) < 2
        /\ RecoverPublicKey(tourCall.poi.InitialSig, tourCall.dependency)
              = PublicKeyOf(tourCall.initiator)) =>
           tourCall.chk = "ErrEmptyNodeList"

\* CheckPoI has refused a well-signed proof for a list of one node
C20_Witness ==
    /\ TourHasChecked
    /\ Len(tourCall.nodes) = 1
    /\ RecoverPublicKey(tourCall.poi.InitialSig, tourCall.dependency)
          = PublicKeyOf(tourCall.initiator)
    /\ tourCall.chk = "ErrEmptyNodeList"

(***************************************************************************)
(* SpecConc: NumMsgs goroutines call Blockchain.CheckMessage or, directly, *)
(* PoIMessageTracker.CheckAndRecord, all for one sender and one dependency *)
(* of the longest chain for which nothing is recorded yet, each with a     *)
(* message of its own.  A call advances one statement at a time.           *)
(***************************************************************************)
Callers == 1..NumMsgs

MsgOf(c) == Blake(<<c, c>>)

ConcSender == AddressOf(PublicKeyOf(1))

ConcInit ==
    /\ \E g \in GenesisBlocks : blockchain = SetMessageTracker(NewBlockchain(Config, g))
    /\ received \in {EmptyMap,
                     CheckAndRecord(EmptyMap, AddressOf(PublicKeyOf(2)),
                                    HeaderHash(LastBlock(blockchain)), MsgOf(1)).received}
    /\ \E kinds \in [Callers -> {"CheckMessage", "CheckAndRecord"}] :
          calls = [c \in Callers |->
                     [kind |-> kinds[c], from |-> ConcSender,
                      dependency |-> HeaderHash(LastBlock(blockchain)),
                      message |-> MsgOf(c), pc |-> "start",
                      exists |-> FALSE, existingMsg |-> ZeroHash, err |-> "none"]]
    /\ trackerMu = {}
    /\ chainReaders = {}
    /\ pool = {}
    /\ signed = {}
    /\ TwinIdle
    /\ op = NoOp
    /\ PoIIdle
    /\ PureIdle
    /\ LoopIdle

\* CheckMessage: bc.mu.RLock()
ConcRLock(c) ==
    /\ calls[c].kind = "CheckMessage"
    /\ calls[c].pc = "start"
    /\ chainReaders' = chainReaders \cup {c}
    /\ calls' = [calls EXCEPT ![c].pc = "rlocked"]
    /\ UNCHANGED <<received, trackerMu, blockchain, concFrame>>

\* CheckMessage: the dependency test
ConcCheckDependency(c) ==
    /\ calls[c].pc = "rlocked"
    /\ calls' = IF OnLongestChain(blockchain, calls[c].dependency)
                THEN [calls EXCEPT ![c].pc = "tracker"]
                ELSE [calls EXCEPT ![c].pc = "return", ![c].err = "ErrInvalidDependency"]
    /\ UNCHANGED <<received, trackerMu, chainReaders, blockchain, concFrame>>

\* CheckAndRecord: t.mu.Lock()
ConcLock(c) ==
    /\ \/ calls[c].kind = "CheckMessage" /\ calls[c].pc = "tracker"
       \/ calls[c].kind = "CheckAndRecord" /\ calls[c].pc = "start"
    /\ MutexFree(trackerMu)
    /\ trackerMu' = trackerMu \cup {c}
    /\ calls' = [calls EXCEPT ![c].pc = "locked"]
    /\ UNCHANGED <<received, chainReaders, blockchain, concFrame>>

\* CheckAndRecord: the sender's inner map is made if it is missing
ConcInitSender(c) ==
    /\ calls[c].pc = "locked"
    /\ received' = IF HashString(calls[c].from) \in DOMAIN received THEN received
                   ELSE MapPut(received, HashString(calls[c].from), EmptyMap)
    /\ calls' = [calls EXCEPT ![c].pc = "lookup"]
    /\ UNCHANGED <<trackerMu, chainReaders, blockchain, concFrame>>

\* CheckAndRecord: existingMsg, exists := t.received[fromStr][depStr]
ConcLookup(c) ==
    /\ calls[c].pc = "lookup"
    /\ LET found == HasEntry(received, calls[c].from, calls[c].dependency)
       IN calls' = [calls EXCEPT ![c].pc = "decide", ![c].exists = found,
                       ![c].existingMsg =
                           IF found THEN EntryOf(received, calls[c].from, calls[c].dependency)
                           ELSE ZeroHash]
    /\ UNCHANGED <<received, trackerMu, chainReaders, blockchain, concFrame>>

\* CheckAndRecord: the comparison with the entry found, or the write
ConcDecide(c) ==
    /\ calls[c].pc = "decide"
    /\ IF calls[c].exists
       THEN /\ calls' = [calls EXCEPT ![c].pc = "unlock",
                            ![c].err = IF IsDoubleTouring(calls[c].existingMsg, calls[c].message)
                                       THEN "ErrDoubleTouringDetected" ELSE "nil"]
            /\ UNCHANGED received
       ELSE /\ received' = [received EXCEPT ![HashString(calls[c].from)] =
                               MapPut(@, HashString(calls[c].dependency), calls[c].message)]
            /\ calls' = [calls EXCEPT ![c].pc = "unlock", ![c].err = "nil"]
    /\ UNCHANGED <<trackerMu, chainReaders, blockchain, concFrame>>

\* CheckAndRecord: the deferred t.mu.Unlock()
ConcUnlock(c) ==
    /\ calls[c].pc = "unlock"
    /\ trackerMu' = trackerMu \ {c}
    /\ calls' = [calls EXCEPT ![c].pc = IF calls[c].kind = "CheckMessage"
                                        THEN "return" ELSE "done"]
    /\ UNCHANGED <<received, chainReaders, blockchain, concFrame>>

\* CheckMessage: the deferred bc.mu.RUnlock()
ConcRUnlock(c) ==
    /\ calls[c].pc = "return"
    /\ chainReaders' = chainReaders \ {c}
    /\ calls' = [calls EXCEPT ![c].pc = "done"]
    /\ UNCHANGED <<received, trackerMu, blockchain, concFrame>>

ConcNext ==
    \E c \in Callers :
        \/ ConcRLock(c)
        \/ ConcCheckDependency(c)
        \/ ConcLock(c)
        \/ ConcInitSender(c)
        \/ ConcLookup(c)
        \/ ConcDecide(c)
        \/ ConcUnlock(c)
        \/ ConcRUnlock(c)

SpecConc == ConcInit /\ [][ConcNext]_vars

(***************************************************************************)
(* C3.  Of the concurrent calls for one (sender, dependency), each with a  *)
(* message of its own, at most one has succeeded at any time, and when all *)
(* have returned exactly one has succeeded and every other one has failed  *)
(* with the double-touring error; the message recorded is the winner's.    *)
(***************************************************************************)
C3_ExactlyOneSucceeds ==
    /\ Cardinality({c \in Callers : calls[c].err = "nil"}) <= 1
    /\ (\A c \in Callers : calls[c].pc = "done")
          => /\ Cardinality({c \in Callers : calls[c].err = "nil"}) = 1
             /\ \A c \in Callers :
                   /\ calls[c].err \in {"nil", "ErrDoubleTouringDetected"}
                   /\ calls[c].err = "nil"
                         => EntryOf(received, ConcSender, calls[c].dependency)
                               = calls[c].message

\* all calls have returned, the one that succeeded is the last caller, a
\* CheckMessage call, and a direct CheckAndRecord call was refused
C3_Witness ==
    /\ \A c \in Callers : calls[c].pc = "done"
    /\ calls[NumMsgs].err = "nil"
    /\ calls[NumMsgs].kind = "CheckMessage"
    /\ \E c \in Callers : calls[c].kind = "CheckAndRecord"
                             /\ calls[c].err = "ErrDoubleTouringDetected"

(***************************************************************************)
(* network: LocalTransport, the PoI messages and the event loop of PoINode *)
(***************************************************************************)
\* the size of a transport's channel, scaled down from 1024
RPC_CHAN_SIZE == 2

\* the first byte of a payload
MessageType == [Tx |-> 1, PoISignRequest |-> 7, PoISignResponse |-> 8]

\* PoISignRequestMessage.Encode: the fields in the order of the struct
EncodeSignRequest(msg) == <<msg.RequestID, msg.Hash, msg.Dependency, msg.Message, msg.From>>

\* DecodePoISignRequest: [err, msg]
DecodePoISignRequest(data) ==
    IF Len(data) = 5
    THEN [err |-> "nil",
          msg |-> [RequestID |-> data[1], Hash |-> data[2], Dependency |-> data[3],
                   Message |-> data[4], From |-> data[5]]]
    ELSE [err |-> "ErrDecode",
          msg |-> [RequestID |-> <<>>, Hash |-> ZeroHash, Dependency |-> ZeroHash,
                   Message |-> ZeroHash, From |-> ZeroHash]]

\* PoISignResponseMessage.Encode
EncodeSignResponse(msg) == <<msg.RequestID, msg.Signature, msg.Error>>

\* the message type byte followed by the encoded message
Payload(type, data) == [type |-> type, data |-> data]

\* variant: the response does not carry the request's ID
SignResponse_NoRequestID(req, r) ==
    [RequestID |-> <<>>, Signature |-> r.sig,
     Error |-> IF r.err # "nil" THEN r.err ELSE ""]

\* handleSignatureRequest: the response to req, r being what
\* HandleSignatureRequest returned
SignResponse(req, r) ==
    IF r.err # "nil"
    THEN [RequestID |-> req.RequestID, Signature |-> <<>>, Error |-> r.err]
    ELSE [RequestID |-> req.RequestID, Signature |-> r.sig, Error |-> ""]

\* LocalTransport.SendMessage waits: the peer's channel is full
SendBlocks(p, ch, from, to) ==
    from # to /\ to \in p[from] /\ Len(ch[to]) >= RPC_CHAN_SIZE

\* variant: the RPC is put in front of those waiting in the channel
SendMessage_Prepends(p, ch, from, to, payload) ==
    IF from = to THEN [err |-> "nil", rpcCh |-> ch]
    ELSE IF to \notin p[from] THEN [err |-> "ErrPeerNotFound", rpcCh |-> ch]
    ELSE [err |-> "nil",
          rpcCh |-> [ch EXCEPT ![to] = <<[From |-> from, Payload |-> payload]>> \o @]]

\* LocalTransport.SendMessage(to, payload) on transport from: [err, rpcCh]
SendMessage(p, ch, from, to, payload) ==
    IF from = to THEN [err |-> "nil", rpcCh |-> ch]
    ELSE IF to \notin p[from] THEN [err |-> "ErrPeerNotFound", rpcCh |-> ch]
    ELSE [err |-> "nil",
          rpcCh |-> [ch EXCEPT ![to] = Append(@, [From |-> from, Payload |-> payload])]]

(***************************************************************************)
(* SpecLoop: a PoINode on transport "N" runs its event loop; requesters    *)
(* "R1" and "R2" are connected to it, and it is connected to any of them.  *)
(* They send signature requests and other messages and consume what they   *)
(* are sent.                                                               *)
(***************************************************************************)
MaxRequests == 2

NodeAddr == "N"
Requesters == {"R1", "R2"}
Transports == Requesters \cup {NodeAddr}

\* the address a requester signs its requests with
RequesterAddress(r) == AddressOf(PublicKeyOf(IF r = "R1" THEN 1 ELSE 2))

LoopIdling == [pc |-> "idle", to |-> NodeAddr,
               req |-> DecodePoISignRequest(<<>>).msg,
               resp |-> [RequestID |-> <<>>, Signature |-> <<>>, Error |-> ""]]

RECURSIVE SumOf(_, _)
SumOf(f, dom) ==
    IF dom = {} THEN 0
    ELSE LET x == CHOOSE y \in dom : TRUE IN f[x] + SumOf(f, dom \ {x})

LoopInit ==
    /\ \E g \in GenesisBlocks : blockchain = SetMessageTracker(NewBlockchain(Config, g))
    /\ received = EmptyMap
    /\ \E back \in SUBSET Requesters :
          peers = [t \in Transports |-> IF t = NodeAddr THEN back ELSE {NodeAddr}]
    /\ rpcCh = [t \in Transports |-> <<>>]
    /\ loop = LoopIdling
    /\ reqCount = [r \in Requesters |-> 0]
    /\ pool = {}
    /\ signed = {}
    /\ TwinIdle
    /\ op = NoOp
    /\ PoIIdle
    /\ PureIdle
    /\ ConcIdle

\* a requester sends a PoISignRequest to the node (RequestSignature's send)
EnvSendRequest(r) ==
    /\ SumOf(reqCount, Requesters) < MaxRequests
    /\ ~SendBlocks(peers, rpcCh, r, NodeAddr)
    /\ \E dependency \in {HeaderHash(LastBlock(blockchain)), Blake(<<1>>)},
          message \in {MsgOf(1), MsgOf(2)} :
          LET msg == [RequestID |-> <<r, reqCount[r] + 1>>,
                      Hash |-> hashConcat(<<0>>, dependency), Dependency |-> dependency,
                      Message |-> message, From |-> RequesterAddress(r)]
          IN rpcCh' = SendMessage(peers, rpcCh, r, NodeAddr,
                                  Payload(MessageType.PoISignRequest,
                                          EncodeSignRequest(msg))).rpcCh
    /\ reqCount' = [reqCount EXCEPT ![r] = @ + 1]
    /\ UNCHANGED <<received, blockchain, peers, loop, loopFrame>>

\* a requester sends the node something else: a transaction, a response
\* nobody waits for, a request that cannot be decoded
EnvSendOther(r) ==
    /\ SumOf(reqCount, Requesters) < MaxRequests
    /\ ~SendBlocks(peers, rpcCh, r, NodeAddr)
    /\ \E payload \in {Payload(MessageType.Tx, <<>>),
                       Payload(MessageType.PoISignResponse,
                               EncodeSignResponse([RequestID |-> <<r, 0>>,
                                                   Signature |-> <<>>, Error |-> "late"])),
                       Payload(MessageType.PoISignRequest, <<>>)} :
          rpcCh' = SendMessage(peers, rpcCh, r, NodeAddr, payload).rpcCh
    /\ reqCount' = [reqCount EXCEPT ![r] = @ + 1]
    /\ UNCHANGED <<received, blockchain, peers, loop, loopFrame>>

\* a requester takes the next RPC from its channel
EnvConsume(r) ==
    /\ rpcCh[r] # <<>>
    /\ rpcCh' = [rpcCh EXCEPT ![r] = Tail(@)]
    /\ UNCHANGED <<received, blockchain, peers, loop, reqCount, loopFrame>>

\* run: an RPC is received from Consume() and handleRPC is called.  A
\* PoISignRequest is decoded and answered by HandleSignatureRequest; the
\* loop is then inside sendSignatureResponse.  A PoISignResponse finds no
\* pending request; other types are ignored.
LoopConsume ==
    /\ loop.pc = "idle"
    /\ rpcCh[NodeAddr] # <<>>
    /\ LET rpc == Head(rpcCh[NodeAddr])
           dec == DecodePoISignRequest(rpc.Payload.data)
           coreReq == [Hash |-> dec.msg.Hash, Dependency |-> dec.msg.Dependency,
                       Message |-> dec.msg.Message, From |-> dec.msg.From]
           r == HandleSignatureRequest(blockchain, received, coreReq, NodeKey, 1)
       IN IF rpc.Payload.type = MessageType.PoISignRequest /\ dec.err = "nil"
          THEN /\ received' = r.received
               /\ loop' = [pc |-> "sending", to |-> rpc.From, req |-> dec.msg,
                           resp |-> SignResponse(dec.msg, r)]
          ELSE UNCHANGED <<received, loop>>
    /\ rpcCh' = [rpcCh EXCEPT ![NodeAddr] = Tail(@)]
    /\ UNCHANGED <<blockchain, peers, reqCount, loopFrame>>

\* sendSignatureResponse: transport.SendMessage(from, response); its error
\* is logged by run
LoopSend ==
    /\ loop.pc = "sending"
    /\ ~SendBlocks(peers, rpcCh, NodeAddr, loop.to)
    /\ rpcCh' = SendMessage(peers, rpcCh, NodeAddr, loop.to,
                            Payload(MessageType.PoISignResponse,
                                    EncodeSignResponse(loop.resp))).rpcCh
    /\ loop' = [loop EXCEPT !.pc = "idle"]
    /\ UNCHANGED <<received, blockchain, peers, reqCount, loopFrame>>

LoopNext ==
    \/ \E r \in Requesters : EnvSendRequest(r) \/ EnvSendOther(r) \/ EnvConsume(r)
    \/ LoopConsume
    \/ LoopSend

SpecLoop == LoopInit /\ [][LoopNext]_vars

(***************************************************************************)
(* C7.  For every PoISignRequest the event loop handles whose transport    *)
(* sender is a peer the node's transport is connected to, the loop sends   *)
(* exactly one PoISignResponse, to that sender: it carries the request's   *)
(* ID and exactly one of Signature and Error, a signature of the node over *)
(* hash(req.Hash || req.Dependency || req.Message) iff CheckMessage        *)
(* succeeded and the error text otherwise; and the loop sends nothing      *)
(* else.                                                                   *)
(***************************************************************************)
\* this step takes a PoISignRequest that decodes from the node's channel
C7_TakesRequest ==
    /\ loop.pc = "idle"
    /\ rpcCh[NodeAddr] # <<>>
    /\ rpcCh'[NodeAddr] = Tail(rpcCh[NodeAddr])
    /\ Head(rpcCh[NodeAddr]).Payload.type = MessageType.PoISignRequest
    /\ DecodePoISignRequest(Head(rpcCh[NodeAddr]).Payload.data).err = "nil"

\* this step ends the loop's SendMessage call
C7_EndsSend == loop.pc = "sending" /\ loop'.pc = "idle"

\* the response built for a request taken: its addressee, ID and content
C7_Answer ==
    C7_TakesRequest =>
        LET rpc == Head(rpcCh[NodeAddr])
            req == DecodePoISignRequest(rpc.Payload.data).msg
            chk == CheckMessage(blockchain, received, req.From, req.Dependency, req.Message)
        IN /\ loop'.pc = "sending"
           /\ loop'.to = rpc.From
           /\ loop'.resp.RequestID = req.RequestID
           /\ (loop'.resp.Signature # <<>>) # (loop'.resp.Error # "")
           /\ chk.err = "nil"
                 => \E n \in Nonces :
                       loop'.resp.Signature
                          = Sign(NodeKey, Blake(req.Hash \o req.Dependency \o req.Message), n)
           /\ chk.err # "nil"
                 => loop'.resp.Signature = <<>> /\ loop'.resp.Error = chk.err

\* the send puts exactly the response built into the sender's channel
C7_Delivers ==
    rpcCh' = [rpcCh EXCEPT ![loop.to] =
                 Append(@, [From |-> NodeAddr,
                            Payload |-> Payload(MessageType.PoISignResponse,
                                                EncodeSignResponse(loop.resp))])]

\* no channel of a requester grows in a step, but the addressee's by one
\* in the step that ends the send
C7_NothingElse ==
    \A t \in Requesters :
        Len(rpcCh'[t]) <= Len(rpcCh[t]) + (IF C7_EndsSend /\ t = loop.to THEN 1 ELSE 0)

C7_StepConnected ==
    /\ C7_Answer
    /\ (C7_EndsSend /\ loop.to \in peers[NodeAddr] /\ loop.to # NodeAddr) => C7_Delivers
    /\ C7_NothingElse

C7_RepliesToConnectedSender == [][C7_StepConnected]_vars

\* the claim as it is written: whoever the transport sender is
C7_StepAlways ==
    /\ C7_Answer
    /\ C7_EndsSend => C7_Delivers
    /\ C7_NothingElse

C7_AlwaysReplies == [][C7_StepAlways]_vars

\* a requester holds the signature it asked for, under its own request ID,
\* and the entry is in the node's tracker
C7_Witness ==
    \E r \in Requesters :
        /\ rpcCh[r] # <<>>
        /\ Head(rpcCh[r]).From = NodeAddr
        /\ Head(rpcCh[r]).Payload.type = MessageType.PoISignResponse
        /\ Head(rpcCh[r]).Payload.data[1][1] = r
        /\ Head(rpcCh[r]).Payload.data[2] # <<>>
        /\ Head(rpcCh[r]).Payload.data[3] = ""
        /\ HasEntry(received, RequesterAddress(r), HeaderHash(LastBlock(blockchain)))

(***************************************************************************)
(* core: LedgerState                                                       *)
(***************************************************************************)
\* uint64 arithmetic, the width scaled from 64 to 16 bits
U64(x) == x % 65536

\* the largest uint64
MaxUint64 == U64(0 - 1)

\* NewLedgerState: no account
NewLedgerState == EmptyMap

\* LedgerState.CreateAccount: a new account of balance 0 takes the address
CreateAccount(ls, address) == MapPut(ls, address, 0)

\* LedgerState.GetBalance: [err, balance]
GetBalance(ls, address) ==
    IF address \notin DOMAIN ls THEN [err |-> "ErrAccountNotFound", balance |-> 0]
    ELSE [err |-> "nil", balance |-> ls[address]]

\* LedgerState.Transfer: [err, ls]
Transfer(ls, from, to, amount) ==
    IF from \notin DOMAIN ls THEN [err |-> "ErrAccountNotFound", ls |-> ls]
    ELSE IF ls[from] < amount THEN [err |-> "ErrInsufficientFunds", ls |-> ls]
    ELSE LET created == IF to \notin DOMAIN ls THEN MapPut(ls, to, 0) ELSE ls
             debited == IF created[from] # 0
                        THEN [created EXCEPT ![from] = U64(@ - amount)]
                        ELSE created
         IN [err |-> "nil", ls |-> [debited EXCEPT ![to] = U64(@ + amount)]]

(***************************************************************************)
(* SpecLedger: a LedgerState whose accounts are created, funded as the     *)
(* tests fund them (fromAcc.Balance += 100, on an account just created)    *)
(* and used in transfers.                                                  *)
(***************************************************************************)
MaxFunds == 2        \* small balances and amounts range over 0..MaxFunds
MaxLedgerOps == 5    \* operations on one ledger

LedgerAddresses == {AddressOf(PublicKeyOf(k)) : k \in 1..3}

\* balances and amounts: small ones and the largest
Amounts == (0..MaxFunds) \cup {MaxUint64}

LedgerOp(name, from, to, amount, err, n) ==
    [name |-> name, from |-> from, to |-> to, amount |-> amount, err |-> err, n |-> n]

LedgerInit ==
    /\ ledger = NewLedgerState
    /\ op = LedgerOp("none", ZeroHash, ZeroHash, 0, "nil", 0)
    /\ writers = <<>>
    /\ wire = <<>>
    /\ ReqIdle
    /\ adjCall = [pc |-> "off"]
    /\ tourCall = [pc |-> "off"]
    /\ received = EmptyMap
    /\ PoIIdle
    /\ NodeIdle
    /\ ConcIdle
    /\ LoopIdle

ledgerFrame == <<received, adjCall, tourCall, writers, wire, reqVars,
                 poiVars, nodeVars, concVars, loopVars>>

\* ledger.CreateAccount(address)
LedgerCreateAccount(a) ==
    /\ op.n < MaxLedgerOps
    /\ ledger' = CreateAccount(ledger, a)
    /\ op' = LedgerOp("CreateAccount", a, a, 0, "nil", op.n + 1)
    /\ UNCHANGED ledgerFrame

\* acc.Balance += v on the account CreateAccount returned
LedgerFund(a, v) ==
    /\ op.n < MaxLedgerOps
    /\ op.name = "CreateAccount" /\ op.from = a
    /\ ledger' = [ledger EXCEPT ![a] = U64(@ + v)]
    /\ op' = LedgerOp("Fund", a, a, v, "nil", op.n + 1)
    /\ UNCHANGED ledgerFrame

\* err := ledger.Transfer(from, to, amount)
LedgerTransfer(from, to, amount) ==
    /\ op.n < MaxLedgerOps
    /\ LET r == Transfer(ledger, from, to, amount)
       IN /\ ledger' = r.ls
          /\ op' = LedgerOp("Transfer", from, to, amount, r.err, op.n + 1)
    /\ UNCHANGED ledgerFrame

LedgerNext ==
    \/ \E a \in LedgerAddresses : LedgerCreateAccount(a)
    \/ \E a \in LedgerAddresses, v \in Amounts \ {0} : LedgerFund(a, v)
    \/ \E from, to \in LedgerAddresses, amount \in Amounts : LedgerTransfer(from, to, amount)

SpecLedger == LedgerInit /\ [][LedgerNext]_vars

(***************************************************************************)
(* C25.  Transfer(from, to, amount) with from # to fails and leaves every  *)
(* account unchanged, creating no recipient account, when the sender       *)
(* account does not exist or its balance is below amount; otherwise the    *)
(* sender's balance decreases by amount, the recipient's balance (0 if the *)
(* account did not exist) increases by amount, and no other account        *)
(* changes.                                                                *)
(***************************************************************************)
C25_BalanceOf(ls, a) == IF a \in DOMAIN ls THEN ls[a] ELSE 0

C25_Step ==
    (op'.name = "Transfer" /\ op'.n = op.n + 1 /\ op'.from # op'.to) =>
        LET from == op'.from
            to == op'.to
            amount == op'.amount
        IN IF from \notin DOMAIN ledger \/ ledger[from] < amount
           THEN op'.err # "nil" /\ ledger' = ledger
           ELSE /\ op'.err = "nil"
                /\ DOMAIN ledger' = DOMAIN ledger \cup {to}
                /\ ledger'[from] = ledger[from] - amount
                /\ ledger'[to] = C25_BalanceOf(ledger, to) + amount
                /\ \A a \in DOMAIN ledger \ {from, to} : ledger'[a] = ledger[a]

C25_TransferMovesAmount == [][C25_Step]_vars

(***************************************************************************)
(* SpecWriters: NumWriters goroutines call AddBlock on one Blockchain,     *)
(* each with a block of its own or all with the same block.  A call        *)
(* advances one lock operation at a time.  Blockchain.mu is a              *)
(* sync.RWMutex: a reader enters unless a writer has called Lock(), a      *)
(* writer that has called Lock() waits for the readers to leave.           *)
(***************************************************************************)
NumWriters == 2

Writers == 1..NumWriters

\* a writer has called bc.mu.Lock() and not yet bc.mu.Unlock()
WriterAnnounced == \E w \in Writers : writers[w].pc \in {"draining", "locked"}

\* the blocks handed to AddBlock: a block GenerateBlock returns for the
\* chain, and legacy blocks of heights 1 and 2
WriterBlocks(bc) ==
    LET r == GenerateBlock(bc, 1, <<>>, [rnd |-> 1, failAt |-> 0, forgeAt |-> 0], 1)
    IN {r.block, LegacyBlock(bc.genesisBlock, 1, <<>>, 8),
        LegacyBlock(bc.genesisBlock, 2, <<>>, 9)}

WritersInit ==
    /\ \E g \in GenesisBlocks : blockchain = SetMessageTracker(NewBlockchain(Config, g))
    /\ received = EmptyMap
    /\ writers \in [Writers -> [pc : {"start"}, block : WriterBlocks(blockchain),
                                err : {"nil"}]]
    /\ pool = {}
    /\ signed = {}
    /\ TwinIdle
    /\ op = NoOp
    /\ ledger = <<>>
    /\ wire = <<>>
    /\ ReqIdle
    /\ adjCall = [pc |-> "off"]
    /\ tourCall = [pc |-> "off"]
    /\ PoIIdle
    /\ ConcIdle
    /\ LoopIdle

writersFrame == <<op, pool, signed, twin, calls, trackerMu, adjCall, tourCall, ledger, wire,
                  reqVars, poiVars, loopVars>>

\* ValidateBlock: bc.mu.RLock()
WriterRLock(w) ==
    /\ writers[w].pc = "start"
    /\ ~WriterAnnounced
    /\ chainReaders' = chainReaders \cup {w}
    /\ writers' = [writers EXCEPT ![w].pc = "dupcheck"]
    /\ UNCHANGED <<blockchain, received, writersFrame>>

\* ValidateBlock: the block is indexed already, RUnlock and return
WriterDuplicate(w) ==
    /\ writers[w].pc = "dupcheck"
    /\ HashString(HeaderHash(writers[w].block)) \in DOMAIN blockchain.blocks
    /\ chainReaders' = chainReaders \ {w}
    /\ writers' = [writers EXCEPT ![w].pc = "done", ![w].err = "ErrBlockAlreadyExists"]
    /\ UNCHANGED <<blockchain, received, writersFrame>>

\* ValidateBlock: the block is not indexed; nodes := bc.GetNodes() takes
\* the read lock a second time, copies the nodes and releases it
WriterGetNodes(w) ==
    /\ writers[w].pc = "dupcheck"
    /\ HashString(HeaderHash(writers[w].block)) \notin DOMAIN blockchain.blocks
    /\ ~WriterAnnounced
    /\ writers' = [writers EXCEPT ![w].pc = "runlock"]
    /\ UNCHANGED <<blockchain, received, chainReaders, writersFrame>>

\* ValidateBlock: bc.mu.RUnlock(), then VerifyData and VerifyProof
WriterVerify(w) ==
    /\ writers[w].pc = "runlock"
    /\ chainReaders' = chainReaders \ {w}
    /\ LET block == writers[w].block
           err == IF VerifyData(block) # "nil" THEN VerifyData(block)
                  ELSE IF block.HasProof
                          /\ VerifyProof(block, [Nodes |-> blockchain.nodes,
                                                 Difficulty |-> block.Difficulty]) # "nil"
                  THEN "ErrPoIVerification"
                  ELSE "nil"
       IN writers' = [writers EXCEPT ![w].pc = IF err = "nil" THEN "lock" ELSE "done",
                                     ![w].err = err]
    /\ UNCHANGED <<blockchain, received, writersFrame>>

\* AddBlock: bc.mu.Lock() is called
WriterLock(w) ==
    /\ writers[w].pc = "lock"
    /\ ~WriterAnnounced
    /\ writers' = [writers EXCEPT ![w].pc = "draining"]
    /\ UNCHANGED <<blockchain, received, chainReaders, writersFrame>>

\* AddBlock: the readers have left, Lock() returns
WriterAcquire(w) ==
    /\ writers[w].pc = "draining"
    /\ chainReaders = {}
    /\ writers' = [writers EXCEPT ![w].pc = "locked"]
    /\ UNCHANGED <<blockchain, received, chainReaders, writersFrame>>

\* AddBlock: the block is inserted under the lock, the deferred Unlock runs
WriterInsert(w) ==
    /\ writers[w].pc = "locked"
    /\ LET r == InsertBlock(blockchain, received, writers[w].block)
       IN /\ blockchain' = r.bc
          /\ received' = r.received
          /\ writers' = [writers EXCEPT ![w].pc = "done", ![w].err = r.err]
    /\ UNCHANGED <<chainReaders, writersFrame>>

WritersNext ==
    \E w \in Writers :
        \/ WriterRLock(w)
        \/ WriterDuplicate(w)
        \/ WriterGetNodes(w)
        \/ WriterVerify(w)
        \/ WriterLock(w)
        \/ WriterAcquire(w)
        \/ WriterInsert(w)

SpecWriters == WritersInit /\ [][WritersNext]_vars

(***************************************************************************)
(* C26.  When two AddBlock calls for the same block run concurrently on    *)
(* one Blockchain, exactly one returns nil and the other returns the       *)
(* already-exists error, and the block appears exactly once in the list    *)
(* GetBlockAtHeight returns for its height.                                *)
(***************************************************************************)
\* GetBlockAtHeight(height): the positions of the list that hold block b
C26_PositionsOf(b) ==
    IF b.Height \notin DOMAIN blockchain.blocksByHeight THEN {}
    ELSE {i \in 1..Len(blockchain.blocksByHeight[b.Height]) :
             HeaderHash(blockchain.blocksByHeight[b.Height][i]) = HeaderHash(b)}

C26_OneInsertion ==
    \A v, w \in Writers :
        (/\ v # w
         /\ writers[v].block = writers[w].block
         /\ writers[v].pc = "done"
         /\ writers[w].pc = "done") =>
            /\ "nil" \in {writers[v].err, writers[w].err}
            /\ "ErrBlockAlreadyExists" \in {writers[v].err, writers[w].err}
            /\ Cardinality(C26_PositionsOf(writers[w].block)) = 1

(***************************************************************************)
(* SpecWire: three LocalTransports are connected to one another (and to    *)
(* themselves) in any order, send numbered payloads and consume what they  *)
(* are sent.                                                               *)
(***************************************************************************)
MaxSends == 3        \* SendMessage calls in one run
MaxConnects == 3     \* Connect calls in one run

WireAddrs == {"A", "B", "C"}

\* the payloads sent so far from one transport to one address, in order
WireSent(from, to) == wire.sent[<<from, to>>]

\* the payloads one transport has consumed from one sender, in order
WireGot(to, from) == wire.got[<<to, from>>]

WireOp(name, from, to, payload, err, n) ==
    [name |-> name, from |-> from, to |-> to, payload |-> payload, err |-> err, n |-> n]

WireInit ==
    /\ peers = [t \in WireAddrs |-> {}]
    /\ rpcCh = [t \in WireAddrs |-> <<>>]
    /\ wire = [sent |-> [x \in WireAddrs \X WireAddrs |-> <<>>],
               got |-> [x \in WireAddrs \X WireAddrs |-> <<>>]]
    /\ op = WireOp("none", "A", "A", <<>>, "nil", 0)
    /\ loop = [pc |-> "off"]
    /\ reqCount = <<>>
    /\ ledger = <<>>
    /\ writers = <<>>
    /\ ReqIdle
    /\ adjCall = [pc |-> "off"]
    /\ tourCall = [pc |-> "off"]
    /\ received = EmptyMap
    /\ PoIIdle
    /\ NodeIdle
    /\ ConcIdle

wireFrame == <<received, loop, reqCount, ledger, writers, reqVars, adjCall, tourCall,
               poiVars, nodeVars, concVars>>

\* tr.Connect(peerTr)
WireConnect(tr, peerTr) ==
    /\ peerTr \notin peers[tr]
    /\ SumOf([t \in WireAddrs |-> Cardinality(peers[t])], WireAddrs) < MaxConnects
    /\ peers' = [peers EXCEPT ![tr] = @ \cup {peerTr}]
    /\ UNCHANGED <<op, rpcCh, wire, wireFrame>>

\* err := tr.SendMessage(to, payload), the payload numbered by the call
WireSendMessage(tr, to) ==
    /\ op.n < MaxSends
    /\ ~SendBlocks(peers, rpcCh, tr, to)
    /\ LET payload == <<op.n + 1>>
           r == SendMessage(peers, rpcCh, tr, to, payload)
       IN /\ rpcCh' = r.rpcCh
          /\ wire' = IF r.err = "nil"
                     THEN [wire EXCEPT !.sent[<<tr, to>>] = Append(@, payload)]
                     ELSE wire
          /\ op' = WireOp("SendMessage", tr, to, payload, r.err, op.n + 1)
    /\ UNCHANGED <<peers, wireFrame>>

\* rpc := <-tr.Consume()
WireConsume(tr) ==
    /\ rpcCh[tr] # <<>>
    /\ LET rpc == Head(rpcCh[tr])
       IN wire' = [wire EXCEPT !.got[<<tr, rpc.From>>] = Append(@, rpc.Payload)]
    /\ rpcCh' = [rpcCh EXCEPT ![tr] = Tail(@)]
    /\ UNCHANGED <<op, peers, wireFrame>>

WireNext ==
    \/ \E tr, peerTr \in WireAddrs : WireConnect(tr, peerTr)
    \/ \E tr, to \in WireAddrs : WireSendMessage(tr, to)
    \/ \E tr \in WireAddrs : WireConsume(tr)

SpecWire == WireInit /\ [][WireNext]_vars

(***************************************************************************)
(* C24.  SendMessage(to, payload) returns an error when to is not a        *)
(* connected peer and otherwise enqueues exactly one RPC with From = the   *)
(* sender's address in the recipient's consume channel; the RPCs one       *)
(* transport sends to one peer are consumed in the order they were sent.   *)
(***************************************************************************)
\* this step is a SendMessage call
C24_Sends == op'.name = "SendMessage" /\ op'.n = op.n + 1

\* one RPC from the sender is added at the end of the recipient's channel
C24_Enqueued ==
    rpcCh' = [rpcCh EXCEPT ![op'.to] = Append(@, [From |-> op'.from,
                                                  Payload |-> op'.payload])]

\* s is the beginning of t
C24_IsPrefix(s, t) == Len(s) <= Len(t) /\ SubSeq(t, 1, Len(s)) = s

\* what a transport has consumed from a sender is the beginning of what the
\* sender has sent it
C24_InOrder ==
    \A from, to \in WireAddrs : C24_IsPrefix(WireGot(to, from), WireSent(from, to))

C24_Step ==
    /\ C24_Sends =>
          IF op'.to \notin peers[op'.from]
          THEN op'.err # "nil" /\ rpcCh' = rpcCh
          ELSE op'.err = "nil" /\ C24_Enqueued
    /\ C24_InOrder'

C24_SendDelivers == [][C24_Step]_vars

(***************************************************************************)
(* C24, amended.  For to other than the sender's own address: as C24.      *)
(* SendMessage to the sender's own address returns nil and enqueues        *)
(* nothing.                                                                *)
(***************************************************************************)
C24_StepToOther ==
    /\ (C24_Sends /\ op'.to # op'.from) =>
          IF op'.to \notin peers[op'.from]
          THEN op'.err # "nil" /\ rpcCh' = rpcCh
          ELSE op'.err = "nil" /\ C24_Enqueued
    /\ (C24_Sends /\ op'.to = op'.from) => (op'.err = "nil" /\ rpcCh' = rpcCh)
    /\ C24_InOrder'

C24_SendToOtherDelivers == [][C24_StepToOther]_vars

\* a transport has consumed, in order, two RPCs of one sender that were in
\* its channel together
C24_Witness ==
    \E from, to \in WireAddrs :
        /\ from # to
        /\ Len(WireGot(to, from)) = 2
        /\ WireGot(to, from) = WireSent(from, to)

(***************************************************************************)
(* network: PoINode.RequestSignature and handleSignatureResponse           *)
(***************************************************************************)
\* DecodePoISignResponse: [err, msg]
DecodePoISignResponse(data) ==
    IF Len(data) = 3
    THEN [err |-> "nil",
          msg |-> [RequestID |-> data[1], Signature |-> data[2], Error |-> data[3]]]
    ELSE [err |-> "ErrDecode",
          msg |-> [RequestID |-> <<>>, Signature |-> <<>>, Error |-> ""]]

\* variant: the request ID is built without the counter
RequestID_NoCounter(address, counter, service) == <<address, 0, service>>

\* reqID := fmt.Sprintf("%s-%d-%s", n.address, counter, servicePubKey[:8])
RequestID(address, counter, service) == <<address, counter, service>>

\* make(chan *PoISignResponseMessage, 1)
NewRespCh == [buf |-> <<>>, closed |-> FALSE]

\* variant: the entry stays in the map
Unregister_Keeps(pending, reqID) == pending

\* the deferred cleanup: delete(n.pendingRequests, reqID)
Unregister(pending, reqID) == MapDelete(pending, reqID)

\* variant: the response goes to any pending request
LookupPending_Any(pending, reqID) ==
    IF DOMAIN pending # {}
    THEN [ok |-> TRUE, ch |-> pending[CHOOSE id \in DOMAIN pending : TRUE]]
    ELSE [ok |-> FALSE, ch |-> 0]

\* ch, ok := n.pendingRequests[resp.RequestID]
LookupPending(pending, reqID) ==
    IF reqID \in DOMAIN pending THEN [ok |-> TRUE, ch |-> pending[reqID]]
    ELSE [ok |-> FALSE, ch |-> 0]

(***************************************************************************)
(* SpecReq: node "Q" runs NumCallers goroutines that call RequestSignature *)
(* and its event loop, which handles the responses.  The services are at   *)
(* "T", a connected peer, at "U", registered and not connected, and at "Q" *)
(* itself.  "T" takes requests from its channel or leaves them there, and  *)
(* sends responses with the IDs issued so far or with an ID never issued;  *)
(* another node "X" sends "T" messages too.  The response channel of a     *)
(* call is kept with the call; pendingRequests maps the request ID to it.  *)
(***************************************************************************)
NumCallers == 2
MaxResponses == 2    \* the responses "T" sends in one run

ReqCallers == 1..NumCallers
ReqNode == "Q"
ReqTargets == {"T", "U", "Q"}
ReqAddrs == {"Q", "T", "X"}

ReqIdleCall == [pc |-> "idle", id |-> <<>>, to |-> "T", ch |-> NewRespCh,
                err |-> "nil", sig |-> <<>>]

HandlerIdle == [pc |-> "idle", ch |-> 0,
                resp |-> DecodePoISignResponse(<<>>).msg]

\* the process of the node has not died of a panic
ReqAlive == handler.pc # "panic"

ReqInit ==
    /\ reqs = [c \in ReqCallers |-> ReqIdleCall]
    /\ pendingRequests = EmptyMap
    /\ requestCounter = 0
    /\ handler = HandlerIdle
    /\ peers = [t \in ReqAddrs |-> IF t = "Q" THEN {"T"} ELSE IF t = "T" THEN {"Q"} ELSE {"T"}]
    /\ rpcCh = [t \in ReqAddrs |-> <<>>]
    /\ reqCount = [t \in {"T", "X"} |-> 0]
    /\ loop = [pc |-> "off"]
    /\ ledger = <<>>
    /\ writers = <<>>
    /\ wire = <<>>
    /\ adjCall = [pc |-> "off"]
    /\ tourCall = [pc |-> "off"]
    /\ received = EmptyMap
    /\ op = NoOp
    /\ PoIIdle
    /\ NodeIdle
    /\ ConcIdle

reqFrame == <<received, op, loop, ledger, writers, wire, adjCall, tourCall,
              poiVars, nodeVars, concVars>>

\* RequestSignature: the counter is incremented under its mutex and the
\* request ID is built
CallStart(c) ==
    /\ ReqAlive
    /\ reqs[c].pc = "idle"
    /\ requestCounter < MaxRequests
    /\ requestCounter' = requestCounter + 1
    /\ \E to \in ReqTargets :
          reqs' = [reqs EXCEPT ![c] = [ReqIdleCall EXCEPT
                                          !.pc = "register", !.to = to,
                                          !.id = RequestID(ReqNode, requestCounter + 1, to)]]
    /\ UNCHANGED <<pendingRequests, handler, peers, rpcCh, reqCount, reqFrame>>

\* respCh := make(chan, 1); n.pendingRequests[reqID] = respCh
CallRegister(c) ==
    /\ ReqAlive
    /\ reqs[c].pc = "register"
    /\ pendingRequests' = MapPut(pendingRequests, reqs[c].id, c)
    /\ reqs' = [reqs EXCEPT ![c].pc = "send", ![c].ch = NewRespCh]
    /\ UNCHANGED <<requestCounter, handler, peers, rpcCh, reqCount, reqFrame>>

\* n.transport.SendMessage(serviceAddr, buf.Bytes()): on an error the call
\* returns it, otherwise the timer is started
CallSend(c) ==
    /\ ReqAlive
    /\ reqs[c].pc = "send"
    /\ ~SendBlocks(peers, rpcCh, ReqNode, reqs[c].to)
    /\ LET msg == [RequestID |-> reqs[c].id, Hash |-> ZeroHash, Dependency |-> ZeroHash,
                   Message |-> ZeroHash, From |-> AddressOf(PublicKeyOf(1))]
           r == SendMessage(peers, rpcCh, ReqNode, reqs[c].to,
                            Payload(MessageType.PoISignRequest, EncodeSignRequest(msg)))
       IN /\ rpcCh' = r.rpcCh
          /\ reqs' = IF r.err # "nil"
                     THEN [reqs EXCEPT ![c].pc = "cleanup", ![c].err = "ErrSend"]
                     ELSE [reqs EXCEPT ![c].pc = "wait"]
    /\ UNCHANGED <<pendingRequests, requestCounter, handler, peers, reqCount, reqFrame>>

\* case resp := <-respCh
CallReceive(c) ==
    /\ ReqAlive
    /\ reqs[c].pc = "wait"
    /\ reqs[c].ch.buf # <<>>
    /\ LET resp == Head(reqs[c].ch.buf)
       IN reqs' = [reqs EXCEPT ![c].pc = "cleanup",
                               ![c].ch.buf = Tail(@),
                               ![c].err = IF resp.Error # "" THEN "ErrSignatureRequest"
                                          ELSE "nil",
                               ![c].sig = IF resp.Error # "" THEN <<>> ELSE resp.Signature]
    /\ UNCHANGED <<pendingRequests, requestCounter, handler, peers, rpcCh, reqCount, reqFrame>>

\* case <-timeout: the 5 seconds have passed
CallTimeout(c) ==
    /\ ReqAlive
    /\ reqs[c].pc = "wait"
    /\ reqs' = [reqs EXCEPT ![c].pc = "cleanup", ![c].err = "ErrTimeout"]
    /\ UNCHANGED <<pendingRequests, requestCounter, handler, peers, rpcCh, reqCount, reqFrame>>

\* the deferred function: the entry is deleted under the lock
CallUnregister(c) ==
    /\ ReqAlive
    /\ reqs[c].pc = "cleanup"
    /\ pendingRequests' = Unregister(pendingRequests, reqs[c].id)
    /\ reqs' = [reqs EXCEPT ![c].pc = "close"]
    /\ UNCHANGED <<requestCounter, handler, peers, rpcCh, reqCount, reqFrame>>

\* the deferred function: close(respCh); the call returns
CallClose(c) ==
    /\ ReqAlive
    /\ reqs[c].pc = "close"
    /\ reqs' = [reqs EXCEPT ![c].pc = "returned", ![c].ch.closed = TRUE]
    /\ UNCHANGED <<pendingRequests, requestCounter, handler, peers, rpcCh, reqCount, reqFrame>>

\* run: an RPC is received; handleSignatureResponse decodes a response and
\* looks its request ID up under the read lock
HandlerConsume ==
    /\ ReqAlive
    /\ handler.pc = "idle"
    /\ rpcCh[ReqNode] # <<>>
    /\ LET rpc == Head(rpcCh[ReqNode])
           dec == DecodePoISignResponse(rpc.Payload.data)
           found == LookupPending(pendingRequests, dec.msg.RequestID)
       IN handler' = IF rpc.Payload.type = MessageType.PoISignResponse
                        /\ dec.err = "nil" /\ found.ok
                     THEN [pc |-> "deliver", ch |-> found.ch, resp |-> dec.msg]
                     ELSE handler
    /\ rpcCh' = [rpcCh EXCEPT ![ReqNode] = Tail(@)]
    /\ UNCHANGED <<reqs, pendingRequests, requestCounter, peers, reqCount, reqFrame>>

\* handleSignatureResponse: select { case ch <- resp: default: }.  A send
\* on a closed channel panics; a full channel takes the default case.
HandlerDeliver ==
    /\ handler.pc = "deliver"
    /\ LET ch == reqs[handler.ch].ch
       IN IF ch.closed
          THEN /\ handler' = [handler EXCEPT !.pc = "panic"]
               /\ UNCHANGED reqs
          ELSE /\ handler' = HandlerIdle
               /\ reqs' = IF Len(ch.buf) < 1
                          THEN [reqs EXCEPT ![handler.ch].ch.buf = Append(@, handler.resp)]
                          ELSE reqs
    /\ UNCHANGED <<pendingRequests, requestCounter, peers, rpcCh, reqCount, reqFrame>>

\* the IDs "T" answers with: those issued, and one never issued
ReqKnownIDs ==
    {reqs[c].id : c \in {x \in ReqCallers : reqs[x].pc # "idle"}}
        \cup {RequestID(ReqNode, 0, "T")}

\* "T" takes the next RPC from its channel
EnvTake ==
    /\ rpcCh["T"] # <<>>
    /\ rpcCh' = [rpcCh EXCEPT !["T"] = Tail(@)]
    /\ UNCHANGED <<reqVars, peers, reqCount, reqFrame>>

\* "T" sends a response: a signature or an error text
EnvRespond ==
    /\ reqCount["T"] < MaxResponses
    /\ ~SendBlocks(peers, rpcCh, "T", ReqNode)
    /\ \E id \in ReqKnownIDs, failed \in BOOLEAN :
          LET resp == [RequestID |-> id,
                       Signature |-> IF failed THEN <<>> ELSE Sign(3, ZeroHash, 1),
                       Error |-> IF failed THEN "refused" ELSE ""]
          IN rpcCh' = SendMessage(peers, rpcCh, "T", ReqNode,
                                  Payload(MessageType.PoISignResponse,
                                          EncodeSignResponse(resp))).rpcCh
    /\ reqCount' = [reqCount EXCEPT !["T"] = @ + 1]
    /\ UNCHANGED <<reqVars, peers, reqFrame>>

\* "X" sends "T" a message
EnvFill ==
    /\ reqCount["X"] < RPC_CHAN_SIZE
    /\ ~SendBlocks(peers, rpcCh, "X", "T")
    /\ rpcCh' = SendMessage(peers, rpcCh, "X", "T", Payload(MessageType.Tx, <<>>)).rpcCh
    /\ reqCount' = [reqCount EXCEPT !["X"] = @ + 1]
    /\ UNCHANGED <<reqVars, peers, reqFrame>>

\* the steps of one RequestSignature call after the request ID is built
CallStep(c) ==
    \/ CallRegister(c)
    \/ CallSend(c)
    \/ CallReceive(c)
    \/ CallTimeout(c)
    \/ CallUnregister(c)
    \/ CallClose(c)

HandlerNext == HandlerConsume \/ HandlerDeliver

ReqNext ==
    \/ \E c \in ReqCallers : CallStart(c) \/ CallStep(c)
    \/ HandlerNext
    \/ EnvTake
    \/ EnvRespond
    \/ EnvFill

SpecReq == ReqInit /\ [][ReqNext]_vars

\* The goroutines of the node are scheduled and the timer of a waiting call
\* fires; nothing is assumed of "T" and "X".
SpecReqLive ==
    /\ SpecReq
    /\ \A c \in ReqCallers : WF_vars(CallStep(c))
    /\ WF_vars(HandlerNext)

\* the call is between its registration and its deferred cleanup
ReqRegistered(c) == reqs[c].pc \in {"send", "wait", "cleanup"}

\* the call has been started and has not returned
ReqRunning(c) == reqs[c].pc \notin {"idle", "returned"}

\* C21: every RequestSignature call whose request has been registered
\* returns
C21_RegisteredCallReturns ==
    \A c \in ReqCallers : (reqs[c].pc = "send") ~> (reqs[c].pc = "returned")

\* C22: pendingRequests holds the entry of a request ID exactly from the
\* registration of its call to the deferred cleanup that every exit path
\* runs, and it is empty when no call is running
C22_PendingWhileInProgress ==
    /\ \A c \in ReqCallers :
          ReqRegistered(c) <=> /\ reqs[c].id \in DOMAIN pendingRequests
                               /\ pendingRequests[reqs[c].id] = c
    /\ \A id \in DOMAIN pendingRequests :
          \E c \in ReqCallers : ReqRunning(c) /\ reqs[c].id = id
    /\ (\A c \in ReqCallers : ~ReqRunning(c)) => pendingRequests = EmptyMap

\* calls have returned from the send failure, from the timeout and from a
\* response, and the map is empty again
C22_Witness ==
    /\ \A c \in ReqCallers : reqs[c].pc = "returned"
    /\ \E c \in ReqCallers : reqs[c].err = "ErrSend"
    /\ \E c \in ReqCallers : reqs[c].err \in {"nil", "ErrTimeout"}
    /\ pendingRequests = EmptyMap

\* the event loop takes a response whose request ID is not pending
C23_Unmatched ==
    /\ handler.pc = "idle"
    /\ rpcCh[ReqNode] # <<>>
    /\ rpcCh'[ReqNode] = Tail(rpcCh[ReqNode])
    /\ Head(rpcCh[ReqNode]).Payload.type = MessageType.PoISignResponse
    /\ DecodePoISignResponse(Head(rpcCh[ReqNode]).Payload.data).msg.RequestID
          \notin DOMAIN pendingRequests

C23_Step ==
    /\ \A c \in ReqCallers :
          /\ (reqs[c].pc = "wait" /\ reqs'[c].pc = "cleanup" /\ reqs'[c].err = "nil")
                => /\ reqs[c].ch.buf # <<>>
                   /\ Head(reqs[c].ch.buf).RequestID = reqs[c].id
                   /\ Head(reqs[c].ch.buf).Error = ""
                   /\ reqs'[c].sig = Head(reqs[c].ch.buf).Signature
          /\ (reqs'[c].pc = "returned" /\ reqs'[c].sig # <<>>) => reqs'[c].err = "nil"
          /\ Len(reqs'[c].ch.buf) > Len(reqs[c].ch.buf)
                => reqs'[c].ch.buf[Len(reqs'[c].ch.buf)].RequestID = reqs[c].id
    /\ C23_Unmatched => /\ UNCHANGED <<reqs, pendingRequests, requestCounter>>
                        /\ handler' = handler

\* C23: a call returns a signature only from a response that carries its
\* own request ID, a response is put only on the channel of the request with
\* its ID, and a response that matches no pending request changes nothing
C23_OnlyOwnResponse == [][C23_Step]_vars

\* a call has returned the signature while the other call, with another
\* request ID, got none
C23_Witness ==
    \E c, d \in ReqCallers :
        /\ reqs[c].pc = "returned" /\ reqs[c].err = "nil" /\ reqs[c].sig # <<>>
        /\ reqs[d].pc \in {"wait", "cleanup", "close", "returned"}
        /\ reqs[d].id # reqs[c].id
        /\ reqs[d].sig = <<>>

(***************************************************************************)
(* SpecLong: a chain near the first difficulty adjustment.  The chain of   *)
(* Init is the one AddBlock has built from the genesis block, one block    *)
(* per height, up to LongRunway blocks below the adjustment height: the    *)
(* first block was added half a target interval after the genesis block    *)
(* and the blocks followed at twice the target pace.  Blocks of the next   *)
(* height with several timestamps, blocks beside the last block and blocks *)
(* that skip a height are added; GenerateBlock and ValidateBlock run.      *)
(***************************************************************************)
LongRunway == 1      \* heights between the chain of Init and the adjustment
MaxLongOps == 3      \* operations in one run

\* the timestamp of the block of the chain at a height, in seconds
LongStamp(height) ==
    IF height = 0 THEN 0
    ELSE (DIFFICULTY_ADJUSTMENT_INTERVAL * TARGET_BLOCK_TIME) \div 2
            + height * (TARGET_BLOCK_TIME \div 2)

\* AddBlock called for the next block of the chain
LongExtend(bc) ==
    AddBlock(bc, EmptyMap,
             LegacyBlock(LastBlock(bc), bc.currentHeight + 1, <<>>,
                         LongStamp(bc.currentHeight + 1))).bc

\* AddBlock called for one block per height up to the height n: first
\* up to the height halfway, then from there
RECURSIVE LongChainFrom(_, _)
LongChainFrom(bc, n) ==
    IF bc.currentHeight >= n THEN bc
    ELSE IF bc.currentHeight + 1 = n THEN LongExtend(bc)
    ELSE LongChainFrom(LongChainFrom(bc, (bc.currentHeight + n) \div 2), n)

LongChain ==
    LongChainFrom(SetMessageTracker(NewBlockchain(Config,
                      NewBlock(GenesisHeader(Config.Difficulty), <<>>))),
                  DIFFICULTY_ADJUSTMENT_INTERVAL - LongRunway)

\* the timestamps of the blocks handed to AddBlock: at the pace of the
\* chain, after half and after twice that time, and before the genesis block
LongStamps(height) ==
    {LongStamp(height), LongStamp(height) \div 2, 2 * LongStamp(height), 0 - 1}

LongIncoming ==
    pool
    \cup {LegacyBlock(LastBlock(blockchain), blockchain.currentHeight + 1, <<>>, ts) :
             ts \in LongStamps(blockchain.currentHeight + 1)}
    \cup {LegacyBlock(blockchain.genesisBlock, blockchain.currentHeight, <<>>, ts) :
             ts \in LongStamps(blockchain.currentHeight)}
    \cup {LegacyBlock(LastBlock(blockchain), blockchain.currentHeight + 2, <<>>,
                      LongStamp(blockchain.currentHeight + 2))}

LongOp(name, err, block, n) == [name |-> name, err |-> err, block |-> block, n |-> n]

LongInit ==
    /\ blockchain = LongChain
    /\ received = EmptyMap
    /\ pool = {}
    /\ signed = {}
    /\ TwinIdle
    /\ op = LongOp("none", "nil", NilBlock, 0)
    /\ PoIIdle
    /\ PureIdle
    /\ ConcIdle
    /\ LoopIdle

\* the process has not died of a panic
LongAlive == op.err # "panic" /\ op.n < MaxLongOps

\* bc.AddBlock(block)
LongAddBlock ==
    /\ LongAlive
    /\ \E block \in LongIncoming :
          LET r == AddBlock(blockchain, received, block)
          IN /\ blockchain' = r.bc
             /\ received' = r.received
             /\ op' = LongOp("AddBlock", r.err, block, op.n + 1)
    /\ UNCHANGED <<pool, signed, twin, nodeFrame>>

\* block, err := bc.GenerateBlock(...): the caller holds the block returned
LongGenerateBlock ==
    /\ LongAlive
    /\ LET r == GenerateBlock(blockchain, 1, <<>>, [rnd |-> 1, failAt |-> 0, forgeAt |-> 0],
                              LongStamp(blockchain.currentHeight + 1))
       IN /\ pool' = IF r.err = "nil" THEN {r.block} ELSE pool
          /\ op' = LongOp("GenerateBlock", r.err, r.block, op.n + 1)
    /\ UNCHANGED <<blockchain, received, signed, twin, nodeFrame>>

\* bc.ValidateBlock(block)
LongValidateBlock ==
    /\ LongAlive
    /\ \E block \in LongIncoming :
          op' = LongOp("ValidateBlock", ValidateBlock(blockchain, block), NilBlock, op.n + 1)
    /\ UNCHANGED <<blockchain, received, pool, signed, twin, nodeFrame>>

LongNext ==
    \/ LongAddBlock
    \/ LongGenerateBlock
    \/ LongValidateBlock

SpecLong == LongInit /\ [][LongNext]_vars

\* the block of the longest chain at a height
C29_BlockAt(bc, height) ==
    CHOOSE b \in {bc.longestChain[i] : i \in 1..Len(bc.longestChain)} : b.Height = height

\* the step is an AddBlock call that returns nil and extends the longest
\* chain to a positive multiple of the adjustment interval
C29_Adjusting ==
    /\ op'.name = "AddBlock"
    /\ op'.err = "nil"
    /\ op'.block.Height > blockchain.currentHeight
    /\ blockchain'.currentHeight = op'.block.Height
    /\ op'.block.Height % DIFFICULTY_ADJUSTMENT_INTERVAL = 0

C29_Step ==
    IF C29_Adjusting
    THEN LET h == blockchain'.currentHeight
         IN /\ \E i \in 1..Len(blockchain'.longestChain) :
                  blockchain'.longestChain[i].Height = h - DIFFICULTY_ADJUSTMENT_INTERVAL
            /\ blockchain'.difficulty =
                  AdjustDifficulty(blockchain.difficulty,
                      TARGET_BLOCK_TIME * DIFFICULTY_ADJUSTMENT_INTERVAL,
                      C29_BlockAt(blockchain', h).Timestamp
                         - C29_BlockAt(blockchain', h - DIFFICULTY_ADJUSTMENT_INTERVAL).Timestamp)
    ELSE blockchain'.difficulty = blockchain.difficulty

\* C29: the difficulty changes only in an AddBlock call that extends the
\* longest chain to a positive multiple h of DIFFICULTY_ADJUSTMENT_INTERVAL,
\* and it becomes AdjustDifficulty over the timestamps of the blocks of the
\* longest chain at the heights h - interval and h; every other operation
\* leaves it unchanged
C29_DifficultyChangesAtInterval == [][C29_Step]_vars

\* the chain has reached the adjustment height and the difficulty has changed
C29_Witness ==
    /\ op.name = "AddBlock"
    /\ op.err = "nil"
    /\ blockchain.currentHeight = DIFFICULTY_ADJUSTMENT_INTERVAL
    /\ op.block.Height = DIFFICULTY_ADJUSTMENT_INTERVAL
    /\ blockchain.difficulty # Config.Difficulty

(***************************************************************************)
(* core: Block.AddTx, Block.AddTxx                                         *)
(***************************************************************************)
\* Block.InvalidateHeaderHash
InvalidateHeaderHash(b) == [b EXCEPT !.headerHash = ZeroHash]

\* Block.AddTxx: the transactions are appended, the data hash is
\* recomputed and the cached header hash is invalidated
AddTxx(b, txx) ==
    InvalidateHeaderHash([b EXCEPT !.Transactions = @ \o txx,
                                   !.DataHash = ComputeDataHash(b.Transactions \o txx)])

\* Block.AddTx
AddTx(b, tx) ==
    InvalidateHeaderHash([b EXCEPT !.Transactions = Append(@, tx),
                                   !.DataHash = ComputeDataHash(Append(b.Transactions, tx))])

(***************************************************************************)
(* SpecBlock: a caller builds a genesis block, with its difficulty set or  *)
(* not, adds transactions to it, signs it, asks for its header hash, and   *)
(* hands it to NewBlockchain.  pool holds the block; the chain keeps the   *)
(* same block as its genesis block.                                        *)
(***************************************************************************)
MaxBlockTxs == 2     \* transactions in the block

BlockOp(name) == [name |-> name]

BlockInit ==
    /\ \E d \in {Config.Difficulty, [Min |-> 0, Max |-> 0]} :
          pool = {NewBlock(GenesisHeader(d), <<>>)}
    /\ blockchain = [currentHeight |-> 0]
    /\ received = EmptyMap
    /\ signed = {}
    /\ TwinIdle
    /\ op = BlockOp("NewBlock")
    /\ PoIIdle
    /\ PureIdle
    /\ ConcIdle
    /\ LoopIdle

\* the block has not been handed to NewBlockchain
BlockOpen == "blocks" \notin DOMAIN blockchain

blockFrame == <<blockchain, received, signed, twin, nodeFrame>>

\* b.AddTx(tx)
BlockAddTx ==
    /\ BlockOpen
    /\ \E b \in pool, m \in 1..2 :
          /\ Len(b.Transactions) < MaxBlockTxs
          /\ pool' = {AddTx(b, Tx(m))}
    /\ op' = BlockOp("AddTx")
    /\ UNCHANGED blockFrame

\* b.AddTxx(txx)
BlockAddTxx ==
    /\ BlockOpen
    /\ \E b \in pool, txx \in {<<>>, <<Tx(1), Tx(2)>>} :
          /\ Len(b.Transactions) + Len(txx) <= MaxBlockTxs
          /\ pool' = {AddTxx(b, txx)}
    /\ op' = BlockOp("AddTxx")
    /\ UNCHANGED blockFrame

\* b.Sign(privKey)
BlockSignIt ==
    /\ BlockOpen
    /\ \E b \in pool, k \in 1..2 : pool' = {BlockSign(b, k, 1)}
    /\ op' = BlockOp("Sign")
    /\ UNCHANGED blockFrame

\* b.HeaderHash(BlockHasher{})
BlockHeaderHash ==
    /\ BlockOpen
    /\ \E b \in pool : pool' = {Cached(b)}
    /\ op' = BlockOp("HeaderHash")
    /\ UNCHANGED blockFrame

\* NewBlockchain(config, b): the chain and the caller hold the same block
BlockNewBlockchain ==
    /\ BlockOpen
    /\ \E b \in pool :
          /\ blockchain' = NewBlockchain(Config, b)
          /\ pool' = {blockchain'.genesisBlock}
    /\ op' = BlockOp("NewBlockchain")
    /\ UNCHANGED <<received, signed, twin, nodeFrame>>

BlockNext ==
    \/ BlockAddTx
    \/ BlockAddTxx
    \/ BlockSignIt
    \/ BlockHeaderHash
    \/ BlockNewBlockchain

SpecBlock == BlockInit /\ [][BlockNext]_vars

\* C31: the cached header hash of a block, when it is not zero, is the hash
\* of the block's header
C31_CacheIsCurrent ==
    \A b \in pool : IsZero(b.headerHash) \/ b.headerHash = BlockHasherHash(b)

\* the calls whose request ID has been built
C33_Issued == {c \in ReqCallers : reqs[c].pc # "idle"}

C33_Step ==
    /\ \A c, d \in C33_Issued' : c # d => reqs'[c].id # reqs'[d].id
    /\ \A c \in C33_Issued' \ C33_Issued :
          /\ reqs'[c].id[2] = requestCounter'
          /\ \A d \in C33_Issued : reqs'[c].id[2] > reqs[d].id[2]
    /\ \A c \in ReqCallers :
          (reqs[c].pc = "register" /\ reqs'[c].pc = "send")
              => reqs[c].id \notin DOMAIN pendingRequests

\* C33: the request IDs of a node are pairwise distinct, the counter in
\* each new ID is greater than the counter in every ID built before, and a
\* request is never registered under an ID that is pending
C33_RequestIDsDistinct == [][C33_Step]_vars

\* two calls to the same service are pending at once, under two IDs
C33_Witness ==
    \E c, d \in ReqCallers :
        /\ c # d
        /\ reqs[c].pc = "wait" /\ reqs[d].pc = "wait"
        /\ reqs[c].to = reqs[d].to
        /\ DOMAIN pendingRequests = {reqs[c].id, reqs[d].id}
        /\ reqs[c].id # reqs[d].id

\* C38: the event loop never sends on a response channel that the cleanup
\* of RequestSignature has closed
C38_NoSendOnClosedChannel == handler.pc # "panic"

(***************************************************************************)
(* SpecChain: AddBlock is handed blocks built on the last block, on the    *)
(* genesis block and on a block the chain does not hold, at the next       *)
(* height, at the current one and one height further: blocks with a legacy *)
(* signature, and blocks with the proof GenerateBlock has made for a node  *)
(* with this chain or with the genesis block only, the height as generated *)
(* or raised by the initiator.                                             *)
(***************************************************************************)
\* a block no chain holds
ChainStranger == NewBlock([GenesisHeader(Config.Difficulty) EXCEPT !.Timestamp = 7], <<>>)

\* the chain of a node that has received the genesis block only
ChainLagging == [blockchain EXCEPT !.longestChain = <<blockchain.genesisBlock>>]

ChainLegacy ==
    {LegacyBlock(prev, height, <<>>, now) :
        prev \in {LastBlock(blockchain), blockchain.genesisBlock, ChainStranger},
        height \in {blockchain.currentHeight, blockchain.currentHeight + 1,
                    blockchain.currentHeight + 2},
        now \in {8, 9}}

ChainProven ==
    UNION {LET r == GenerateBlock(bc, 1, <<>>, [rnd |-> 1, failAt |-> 0, forgeAt |-> 0], 9)
           IN IF r.err # "nil" THEN {}
              ELSE {r.block, [r.block EXCEPT !.Height = @ + 1]} :
           bc \in {blockchain, ChainLagging}}

ChainOp(name, err, block) == [name |-> name, err |-> err, block |-> block]

ChainInit ==
    /\ blockchain = SetMessageTracker(NewBlockchain(Config,
                        NewBlock(GenesisHeader(Config.Difficulty), <<>>)))
    /\ received = EmptyMap
    /\ pool = {}
    /\ signed = {}
    /\ TwinIdle
    /\ op = ChainOp("none", "nil", NilBlock)
    /\ PoIIdle
    /\ PureIdle
    /\ ConcIdle
    /\ LoopIdle

\* bc.AddBlock(block)
ChainAddBlock ==
    /\ Cardinality(DOMAIN blockchain.blocks) < MaxBlocks
    /\ \E block \in ChainLegacy \cup ChainProven :
          LET r == AddBlock(blockchain, received, block)
          IN /\ blockchain' = r.bc
             /\ received' = r.received
             /\ op' = ChainOp("AddBlock", r.err, block)
    /\ UNCHANGED <<pool, signed, twin, nodeFrame>>

ChainNext == ChainAddBlock

SpecChain == ChainInit /\ [][ChainNext]_vars

\* C35: the block at position i of the longest chain has Height i and the
\* chain has currentHeight + 1 elements
C35_IndexedByHeight ==
    /\ Len(blockchain.longestChain) = blockchain.currentHeight + 1
    /\ \A i \in 1..Len(blockchain.longestChain) : blockchain.longestChain[i].Height = i - 1

\* C36: every block of the longest chain after the first has the header
\* hash of the block before it as PrevBlockHash, and every indexed block
\* other than the genesis block has an indexed parent
C36_HashLinked ==
    /\ \A i \in 2..Len(blockchain.longestChain) :
          blockchain.longestChain[i].PrevBlockHash
              = HeaderHash(blockchain.longestChain[i - 1])
    /\ \A h \in DOMAIN blockchain.blocks :
          blockchain.blocks[h] # blockchain.genesisBlock
              => HashString(blockchain.blocks[h].PrevBlockHash) \in DOMAIN blockchain.blocks

\* C37: while a call on the chain has not returned, some call can take
\* its next step: no call waits for the chain's lock for ever
C37_NoDeadlock ==
    (\E w \in Writers : writers[w].pc # "done") => ENABLED WritersNext

(***************************************************************************)
(* SpecStop: the node of SpecLoop is started and Stop() is called on it    *)
(* at any moment.  The requesters send signature requests and consume the  *)
(* responses, or leave them in their channels.  op.name is "Stop" from the *)
(* call of Stop(), which closes quitCh, until it returns.                  *)
(***************************************************************************)
MaxStopRequests == 3     \* requests the requesters send in one run

\* a requester sends a PoISignRequest for the last block to the node
StopEnvRequest(r) ==
    /\ SumOf(reqCount, Requesters) < MaxStopRequests
    /\ ~SendBlocks(peers, rpcCh, r, NodeAddr)
    /\ LET dependency == HeaderHash(LastBlock(blockchain))
           msg == [RequestID |-> <<r, reqCount[r] + 1>>,
                   Hash |-> hashConcat(<<0>>, dependency), Dependency |-> dependency,
                   Message |-> MsgOf(1), From |-> RequesterAddress(r)]
       IN rpcCh' = SendMessage(peers, rpcCh, r, NodeAddr,
                               Payload(MessageType.PoISignRequest,
                                       EncodeSignRequest(msg))).rpcCh
    /\ reqCount' = [reqCount EXCEPT ![r] = @ + 1]
    /\ UNCHANGED <<received, blockchain, peers, loop, loopFrame>>

stopFrame == <<poiVars, nodeVars, concVars, pureVars>>

\* Stop(): close(n.quitCh); n.wg.Wait() begins
StopCall ==
    /\ op.name = "none"
    /\ op' = [op EXCEPT !.name = "Stop"]
    /\ UNCHANGED <<received, loopVars, stopFrame>>

\* run: the select takes the case <-n.quitCh and the loop returns
LoopQuit ==
    /\ loop.pc = "idle"
    /\ op.name = "Stop"
    /\ loop' = [loop EXCEPT !.pc = "exited"]
    /\ UNCHANGED <<received, op, peers, rpcCh, reqCount, stopFrame>>

\* Stop(): wg.Wait() returns after the deferred wg.Done() of run
StopReturn ==
    /\ op.name = "Stop"
    /\ loop.pc = "exited"
    /\ op' = [op EXCEPT !.name = "Stopped"]
    /\ UNCHANGED <<received, loopVars, stopFrame>>

StopNext ==
    \/ \E r \in Requesters : StopEnvRequest(r) \/ EnvConsume(r)
    \/ LoopConsume
    \/ LoopSend
    \/ StopCall
    \/ LoopQuit
    \/ StopReturn

SpecStop == LoopInit /\ [][StopNext]_vars

\* The goroutine of the loop and the caller of Stop() are scheduled, and a
\* select that is reached again and again with quitCh closed takes that
\* case; nothing is assumed of the requesters.
SpecStopLive ==
    /\ SpecStop
    /\ WF_vars(LoopConsume)
    /\ WF_vars(LoopSend)
    /\ SF_vars(LoopQuit)
    /\ WF_vars(StopReturn)

\* C34: after Stop() is called the event loop exits and Stop() returns
C34_StopReturns == (op.name = "Stop") ~> (op.name = "Stopped")

(***************************************************************************)
(* SpecSpoof: the node of SpecLoop and its requesters; a requester fills   *)
(* the From field of a request with its own address or with the other      *)
(* requester's.                                                            *)
(***************************************************************************)
\* requester r sends the node a PoISignRequest whose From field names as
SpoofEnvRequest(r, as) ==
    /\ SumOf(reqCount, Requesters) < MaxRequests
    /\ ~SendBlocks(peers, rpcCh, r, NodeAddr)
    /\ \E message \in {MsgOf(1), MsgOf(2)} :
          LET dependency == HeaderHash(LastBlock(blockchain))
              msg == [RequestID |-> <<r, reqCount[r] + 1>>,
                      Hash |-> hashConcat(<<0>>, dependency), Dependency |-> dependency,
                      Message |-> message, From |-> RequesterAddress(as)]
          IN rpcCh' = SendMessage(peers, rpcCh, r, NodeAddr,
                                  Payload(MessageType.PoISignRequest,
                                          EncodeSignRequest(msg))).rpcCh
    /\ reqCount' = [reqCount EXCEPT ![r] = @ + 1]
    /\ UNCHANGED <<received, blockchain, peers, loop, loopFrame>>

SpoofNext ==
    \/ \E r, as \in Requesters : SpoofEnvRequest(r, as)
    \/ \E r \in Requesters : EnvConsume(r)
    \/ LoopConsume
    \/ LoopSend

SpecSpoof == LoopInit /\ [][SpoofNext]_vars

\* the tracker's entry of a sender: what it has recorded under the address
C40_EntryOf(rcv, from) ==
    IF HashString(from) \in DOMAIN rcv THEN rcv[HashString(from)] ELSE EmptyMap

C40_Step ==
    C7_TakesRequest =>
        \A r \in Requesters :
            r # Head(rpcCh[NodeAddr]).From
                => C40_EntryOf(received', RequesterAddress(r))
                      = C40_EntryOf(received, RequesterAddress(r))

\* C40: a signature request changes the tracker entry of the node that
\* sent it only: no requester creates or changes the entry of another
C40_RecordsActualSender == [][C40_Step]_vars

(***************************************************************************)
(* SpecMesh: the nodes of Config.Nodes form a fully connected mesh; every  *)
(* node is registered, runs its event loop and holds the same chain, with  *)
(* a tracker of its own.  The transport of the node with key k has the     *)
(* address k.  One node calls PoINode.GenerateBlock: GeneratePoI runs hop  *)
(* by hop with RequestSignature as its signature provider.  tourCall is    *)
(* the call: its position, the tour so far, the requests it has issued and *)
(* the response channel of the request it waits for.  The nodes answer     *)
(* well within the 5 seconds: the timer of a request fires only when no    *)
(* node has the request or its response in hand.                           *)
(***************************************************************************)
MeshNodes == 1..MaxNodes

\* NodeRegistry.GetAddress(servicePubKey)
MeshGetAddress(servicePubKey) == PrivateKeyOf(servicePubKey)

MeshLoopIdle == [pc |-> "idle", to |-> 0, chID |-> <<>>,
                 resp |-> [RequestID |-> <<>>, Signature |-> <<>>, Error |-> ""]]

\* GeneratePoI, steps 1 to 5: the call before the first hop
MeshTourStart(initiator, transactions, rnd, bc) ==
    LET dependency == HeaderHash(LastBlock(bc))
        message == ComputeDataHash(transactions)
        s0 == Sign(initiator, dependency, rnd)
    IN [pc |-> "request", initiator |-> initiator, rnd |-> rnd,
        transactions |-> transactions, dependency |-> dependency, message |-> message,
        services |-> createServices(bc.nodes, s0),
        length |-> tourLength(bc.difficulty, s0).length,
        i |-> 0, currentHash |-> hashConcat(s0, message),
        poi |-> [InitialSig |-> s0, TourSignatures |-> <<>>],
        sent |-> <<>>, reqID |-> <<>>, to |-> 0, ch |-> NewRespCh,
        serviceSig |-> <<>>, err |-> "nil"]

\* GeneratePoI, the tour loop: the service of the next hop
MeshNextService(call) ==
    call.services[hashToIndex(call.currentHash, Len(call.services)) + 1]

\* GeneratePoI, the tour loop: the signature request of the next hop
MeshHopRequest(call) ==
    [Hash |-> call.currentHash, Dependency |-> call.dependency, Message |-> call.message,
     From |-> AddressOf(PublicKeyOf(call.initiator))]

\* variant: the current hash is not updated
MeshCountersign_KeepsHash(call, serviceSig) ==
    LET initiatorSig == Sign(call.initiator, Blake(serviceSig), call.rnd)
    IN [call EXCEPT !.poi.TourSignatures = @ \o <<serviceSig, initiatorSig>>,
                    !.i = @ + 1]

\* GeneratePoI, the tour loop after the provider has returned: the two
\* signatures are appended and the current hash becomes H(s'_i)
MeshCountersign(call, serviceSig) ==
    LET initiatorSig == Sign(call.initiator, Blake(serviceSig), call.rnd)
    IN [call EXCEPT !.poi.TourSignatures = @ \o <<serviceSig, initiatorSig>>,
                    !.currentHash = Blake(initiatorSig),
                    !.i = @ + 1]

MeshInit ==
    /\ blockchain = SetMessageTracker(NewBlockchain(Config,
                        NewBlock(GenesisHeader(Config.Difficulty), <<>>)))
    /\ \E initiator \in MeshNodes, txs \in TxLists, rnd \in Nonces :
          tourCall = MeshTourStart(initiator, txs, rnd, blockchain)
    /\ received = [k \in MeshNodes |-> EmptyMap]
    /\ peers = [k \in MeshNodes |-> MeshNodes \ {k}]
    /\ rpcCh = [k \in MeshNodes |-> <<>>]
    /\ loop = [k \in MeshNodes |-> MeshLoopIdle]
    /\ reqCount = <<>>
    /\ pendingRequests = EmptyMap
    /\ requestCounter = 0
    /\ reqs = <<>>
    /\ handler = [pc |-> "off"]
    /\ ledger = <<>>
    /\ writers = <<>>
    /\ wire = <<>>
    /\ adjCall = [pc |-> "off"]
    /\ pool = {}
    /\ signed = {}
    /\ TwinIdle
    /\ op = NoOp
    /\ PoIIdle
    /\ ConcIdle

meshFrame == <<op, blockchain, signed, twin, peers, reqCount, reqs, handler, ledger, writers,
               wire, adjCall, poiVars, concVars>>

\* the process of the initiator has not died of a panic
MeshAlive == loop[tourCall.initiator].pc # "panic"

\* the tour loop issues the request of the next hop; RequestSignature looks
\* the service up, builds the request ID and registers the response channel
MeshRequest ==
    /\ MeshAlive
    /\ tourCall.pc = "request"
    /\ LET service == MeshNextService(tourCall)
           reqID == RequestID(tourCall.initiator, requestCounter + 1, service)
       IN /\ requestCounter' = requestCounter + 1
          /\ pendingRequests' = MapPut(pendingRequests, reqID, TRUE)
          /\ tourCall' = [tourCall EXCEPT !.pc = "send", !.reqID = reqID,
                                          !.to = MeshGetAddress(service),
                                          !.ch = NewRespCh,
                                          !.sent = Append(@, MeshHopRequest(tourCall))]
    /\ UNCHANGED <<received, rpcCh, loop, pool, meshFrame>>

\* RequestSignature: transport.SendMessage(serviceAddr, ...), then the timer
MeshSend ==
    /\ MeshAlive
    /\ tourCall.pc = "send"
    /\ ~SendBlocks(peers, rpcCh, tourCall.initiator, tourCall.to)
    /\ LET req == tourCall.sent[Len(tourCall.sent)]
           msg == [RequestID |-> tourCall.reqID, Hash |-> req.Hash,
                   Dependency |-> req.Dependency, Message |-> req.Message,
                   From |-> req.From]
           r == SendMessage(peers, rpcCh, tourCall.initiator, tourCall.to,
                            Payload(MessageType.PoISignRequest, EncodeSignRequest(msg)))
       IN /\ rpcCh' = r.rpcCh
          /\ tourCall' = IF r.err # "nil"
                         THEN [tourCall EXCEPT !.pc = "cleanup", !.err = "ErrSend"]
                         ELSE [tourCall EXCEPT !.pc = "wait"]
    /\ UNCHANGED <<received, loop, pendingRequests, requestCounter, pool, meshFrame>>

\* run of node k: an RPC is received.  A request is answered by
\* HandleSignatureRequest on the node's tracker; for a response the pending
\* channel is looked up.
MeshLoopConsume(k) ==
    /\ loop[k].pc = "idle"
    /\ rpcCh[k] # <<>>
    /\ LET rpc == Head(rpcCh[k])
           dec == DecodePoISignRequest(rpc.Payload.data)
           coreReq == [Hash |-> dec.msg.Hash, Dependency |-> dec.msg.Dependency,
                       Message |-> dec.msg.Message, From |-> dec.msg.From]
           r == HandleSignatureRequest(blockchain, received[k], coreReq, k, tourCall.rnd)
           got == DecodePoISignResponse(rpc.Payload.data)
           found == IF k = tourCall.initiator
                    THEN LookupPending(pendingRequests, got.msg.RequestID)
                    ELSE LookupPending(EmptyMap, got.msg.RequestID)
       IN IF rpc.Payload.type = MessageType.PoISignRequest /\ dec.err = "nil"
          THEN /\ received' = [received EXCEPT ![k] = r.received]
               /\ loop' = [loop EXCEPT ![k] = [MeshLoopIdle EXCEPT
                                                  !.pc = "sending", !.to = rpc.From,
                                                  !.resp = SignResponse(dec.msg, r)]]
          ELSE IF rpc.Payload.type = MessageType.PoISignResponse
                  /\ got.err = "nil" /\ found.ok
          THEN /\ loop' = [loop EXCEPT ![k] = [MeshLoopIdle EXCEPT
                                                  !.pc = "deliver", !.resp = got.msg,
                                                  !.chID = got.msg.RequestID]]
               /\ UNCHANGED received
          ELSE UNCHANGED <<received, loop>>
    /\ rpcCh' = [rpcCh EXCEPT ![k] = Tail(@)]
    /\ UNCHANGED <<tourCall, pendingRequests, requestCounter, pool, meshFrame>>

\* sendSignatureResponse of node k
MeshLoopSend(k) ==
    /\ loop[k].pc = "sending"
    /\ ~SendBlocks(peers, rpcCh, k, loop[k].to)
    /\ rpcCh' = SendMessage(peers, rpcCh, k, loop[k].to,
                            Payload(MessageType.PoISignResponse,
                                    EncodeSignResponse(loop[k].resp))).rpcCh
    /\ loop' = [loop EXCEPT ![k] = MeshLoopIdle]
    /\ UNCHANGED <<received, tourCall, pendingRequests, requestCounter, pool, meshFrame>>

\* handleSignatureResponse of node k: select { case ch <- resp: default: }
MeshLoopDeliver(k) ==
    /\ loop[k].pc = "deliver"
    /\ LET open == tourCall.reqID = loop[k].chID /\ ~tourCall.ch.closed
       IN IF ~open
          THEN /\ loop' = [loop EXCEPT ![k].pc = "panic"]
               /\ UNCHANGED tourCall
          ELSE /\ loop' = [loop EXCEPT ![k] = MeshLoopIdle]
               /\ tourCall' = IF Len(tourCall.ch.buf) < 1
                              THEN [tourCall EXCEPT !.ch.buf = Append(@, loop[k].resp)]
                              ELSE tourCall
    /\ UNCHANGED <<received, rpcCh, pendingRequests, requestCounter, pool, meshFrame>>

\* RequestSignature: case resp := <-respCh
MeshReceive ==
    /\ MeshAlive
    /\ tourCall.pc = "wait"
    /\ tourCall.ch.buf # <<>>
    /\ LET resp == Head(tourCall.ch.buf)
       IN tourCall' = [tourCall EXCEPT
                          !.pc = "cleanup", !.ch.buf = Tail(@),
                          !.err = IF resp.Error # "" THEN "ErrSignatureRequest" ELSE "nil",
                          !.serviceSig = IF resp.Error # "" THEN <<>> ELSE resp.Signature]
    /\ UNCHANGED <<received, rpcCh, loop, pendingRequests, requestCounter, pool, meshFrame>>

\* no node holds the request or a response to it
MeshQuiet ==
    /\ \A k \in MeshNodes : rpcCh[k] = <<>> /\ loop[k].pc \in {"idle", "panic"}
    /\ tourCall.ch.buf = <<>>

\* RequestSignature: case <-timeout
MeshTimeout ==
    /\ MeshAlive
    /\ tourCall.pc = "wait"
    /\ MeshQuiet
    /\ tourCall' = [tourCall EXCEPT !.pc = "cleanup", !.err = "ErrTimeout"]
    /\ UNCHANGED <<received, rpcCh, loop, pendingRequests, requestCounter, pool, meshFrame>>

\* RequestSignature: the deferred delete and close, and the return to the
\* tour loop, which fails or countersigns and goes on
MeshReturn ==
    /\ MeshAlive
    /\ tourCall.pc = "cleanup"
    /\ pendingRequests' = Unregister(pendingRequests, tourCall.reqID)
    /\ LET closed == [tourCall EXCEPT !.ch.closed = TRUE]
           next == MeshCountersign(closed, tourCall.serviceSig)
       IN tourCall' = IF tourCall.err # "nil" THEN [closed EXCEPT !.pc = "failed"]
                      ELSE [next EXCEPT !.pc = IF next.i < next.length THEN "request"
                                               ELSE "proven"]
    /\ UNCHANGED <<received, rpcCh, loop, requestCounter, pool, meshFrame>>

\* Blockchain.GenerateBlock: the proof is attached and the block returned
MeshFinish ==
    /\ MeshAlive
    /\ tourCall.pc = "proven"
    /\ LET lastBlock == LastBlock(blockchain)
           header == [Version |-> PROTOCOL_VERSION, Height |-> U32(lastBlock.Height + 1),
                      DataHash |-> tourCall.message, PrevBlockHash |-> tourCall.dependency,
                      Timestamp |-> 1, Difficulty |-> blockchain.difficulty]
       IN pool' = {SetProof(NewBlock(header, tourCall.transactions), tourCall.poi)}
    /\ tourCall' = [tourCall EXCEPT !.pc = "done"]
    /\ UNCHANGED <<received, rpcCh, loop, pendingRequests, requestCounter, meshFrame>>

\* the steps of the GenerateBlock call
MeshCallStep ==
    \/ MeshRequest
    \/ MeshSend
    \/ MeshReceive
    \/ MeshTimeout
    \/ MeshReturn
    \/ MeshFinish

\* the steps of the event loop of node k
MeshLoopStep(k) ==
    \/ MeshLoopConsume(k)
    \/ MeshLoopSend(k)
    \/ MeshLoopDeliver(k)

MeshNext ==
    \/ MeshCallStep
    \/ \E k \in MeshNodes : MeshLoopStep(k)

SpecMesh == MeshInit /\ [][MeshNext]_vars

\* every goroutine is scheduled
SpecMeshLive ==
    /\ SpecMesh
    /\ WF_vars(MeshCallStep)
    /\ \A k \in MeshNodes : WF_vars(MeshLoopStep(k))

\* the step issues a signature request of the tour
C32_Issues == Len(tourCall'.sent) = Len(tourCall.sent) + 1

\* the initiator's countersignature of the last answered hop
C32_LastCountersignature ==
    tourCall.poi.TourSignatures[Len(tourCall.poi.TourSignatures)]

C32_Step ==
    /\ Cardinality(DOMAIN pendingRequests') <= 1
    /\ C32_Issues =>
          LET n == Len(tourCall.sent)
              sigs == tourCall.poi.TourSignatures
              req == tourCall'.sent[n + 1]
          IN /\ DOMAIN pendingRequests = {}
             /\ tourCall.ch.closed \/ n = 0
             /\ Len(sigs) = 2 * n
             /\ n > 0 =>
                   /\ sigs[2 * n] = Sign(tourCall.initiator, Blake(sigs[2 * n - 1]),
                                         tourCall.rnd)
                   /\ req.Hash = Blake(C32_LastCountersignature)
             /\ n = 0 => req.Hash = hashConcat(tourCall.poi.InitialSig, tourCall.message)

\* C32: within one tour the signature requests are strictly sequential.  A
\* request is issued only when no request of the tour is outstanding and
\* every earlier request has been answered and countersigned (the proof
\* holds two signatures per request issued, the last one the initiator's
\* signature over the hash of the service's); the Hash of the request is
\* the hash of that countersignature (of s0 and the message for the first
\* hop); and the initiator never has more than one pending request.
C32_ToursAreSequential == [][C32_Step]_vars

\* the request of the second hop has been issued after the first hop was
\* answered and countersigned
C32_Witness ==
    /\ Len(tourCall.sent) = 2
    /\ tourCall.pc = "wait"
    /\ Len(tourCall.poi.TourSignatures) = 2

\* C39: in the fully connected mesh GenerateBlock eventually returns a
\* block: the call reaches its end with the block generated.
C39_GenerateBlockReturnsBlock == <>(tourCall.pc = "done" /\ pool # {})

====
